---- MODULE Spec2Model ----
(***************************************************************************)
(* Result delivery and reconciliation core of proofy-commons:              *)
(* ResultsHandler (proofy/_impl/io/results_handler.py) driving the         *)
(* ContextService (proofy/_impl/context/service.py) and an opaque remote   *)
(* client.  A handler method is one action; the remote client's answers    *)
(* are the nondeterministic inputs of the action.  Every handler operator  *)
(* maps a heap (the mutable objects the handler touches) to the SET of     *)
(* heaps it can leave behind, one per combination of client answers.       *)
(***************************************************************************)
EXTENDS Integers, Sequences, FiniteSets, TLC

\* ---------------------------------------------------------------- bounds
MaxTests == 2
MaxAttachments == 1
MaxFlushes == 1
MaxTagList == 2
MaxLimit == 3
MaxAttributes == 2
MaxItems == 3
MaxBudget == 20
MaxContexts == 1
MaxWorkers == 2
MaxWorkerResults == 2
MaxDuration == 1

\* ------------------------------------------------------ program constants
DefaultBatchSize == 100
NoId == 0

Tests == 1..MaxTests
Modes == {"live", "lazy", "batch"}
CreateOutcomes == {"ok", "raise", "noid"}
UploadOutcomes == {"artifact", "status", "unconfirmed", "error"}
TagNames == {"smoke", "slow", "api"}

\* ResultStatus: the outcome the adapter reports for a test when it ends,
\* and whether that outcome comes with traceback text.
Outcomes == <<"FAILED", "PASSED", "BROKEN", "SKIPPED">>
OutcomeOf(t) == Outcomes[((t - 1) % Len(Outcomes)) + 1]
HasTraceback(o) == o \in {"FAILED", "BROKEN"}

VARIABLES
    mode,           \* ResultsHandler.mode
    client,         \* ResultsHandler.client is not None
    project_id,     \* ResultsHandler.project_id is truthy
    envBatchSize,   \* os.environ["PROOFY_BATCH_SIZE"]: [set, digits]
    clientUploads,  \* the answers the client's upload methods can give
    pc,             \* where the surrounding session is in its lifecycle
    run_id,         \* the run id start_run returned (NoId = None)
    session,        \* the thread's SessionContext: [active, run_id]
    test_results,   \* SessionContext.test_results, keys in insertion order
    current_test,   \* the thread's current-test pointer (NoId = None)
    results,        \* the TestResult objects, by local id
    batch_results,  \* ResultsHandler._batch_results
    server,         \* the remote service: id counters and the run's status
    totals,         \* remote calls made so far, per result
    flushes,        \* explicit flush_results calls made so far
    clientAnswers,  \* whether a remote call after start_run returned / raised
    backup,         \* the backup document on disk
    lastOp,         \* the handler call just made and the exception it raised
    lastCalls,      \* the remote calls that handler call made, in order
    lastLogs,       \* what that handler call logged, in order
    limits,         \* the clamp utility just called: its arguments and result
    lastAttach,     \* the attach call just made on a test: its inputs and what it stored
    Local,          \* runtime/context.py _LOCAL: each thread's test_ctx and session_ctx
    threadPc,       \* where each thread is inside get_current_test_context
    returned,       \* what each thread's last get returned, since its last set
    lastSet,        \* the contexts each thread last set (or had created for it)
    workers,        \* the worker processes: running or exited, and their results
    workerFiles,    \* results_<worker>.json in the output directory
    resultsFile,    \* results.json in the output directory
    masterPc,       \* the coordinating process: running or finished
    lastUpdate,     \* the update_result call just made on the client
    plugins,        \* each process's plugin instance and where its session is
    workerinput,    \* what the coordinating process put in each worker's input
    runCalls,       \* create-run and finalize calls so far, by calling process
    handlers,       \* the context service each ResultsHandler instance holds
    global_service, \* context/__init__.py _global_service (NoId = None)
    finishedBy      \* the handler through which each result was finished

vars == <<mode, client, project_id, envBatchSize, clientUploads, pc, run_id, session,
          test_results, current_test, results, batch_results, server,
          totals, flushes, clientAnswers, backup, lastOp, lastCalls, lastLogs,
          limits, lastAttach, Local, threadPc, returned, lastSet,
          workers, workerFiles, resultsFile, masterPc,
          lastUpdate, plugins, workerinput, runCalls,
          handlers, global_service, finishedBy>>

\* The variables of a session of the handler and the context service, and
\* the variables such a session leaves alone.
sessionVars == <<mode, client, project_id, envBatchSize, clientUploads, pc, run_id,
                 session, test_results, current_test, results, batch_results,
                 server, totals, flushes, clientAnswers, backup, lastOp,
                 lastCalls, lastLogs, lastAttach>>
threadVars == <<Local, threadPc, returned, lastSet>>
mergeVars == <<workers, workerFiles, resultsFile, masterPc>>
clientVars == <<lastUpdate>>
xdistVars == <<plugins, workerinput, runCalls>>
handlerVars == <<handlers, global_service, finishedBy>>
lateVars == <<clientVars, xdistVars, handlerVars>>
others == <<limits, threadVars, mergeVars, lateVars>>

\* ------------------------------------------------------------ data model
NewResult ==
    [phase |-> "new", run_id |-> NoId, result_id |-> NoId,
     name |-> "nodeid", attributes |-> {},
     status |-> "IN_PROGRESS", traceback |-> FALSE, tags |-> <<>>,
     reporting_status |-> "UNSENT", attachments |-> <<>>]

NewAttachment(cached, known) ==
    [cached |-> cached, known |-> known, remote_id |-> NoId,
     exists |-> TRUE, uploads |-> 0]

\* The two threads of the claims about thread-local storage, and the
\* worker processes of a distributed run.
Threads == {1, 2}
Workers == 1..MaxWorkers

\* A thread's namespace in _LOCAL with no attribute set (NoId = absent), and
\* a thread that has not called a getter since its last set.
NoContexts == [test_ctx |-> NoId, session_ctx |-> NoId]
NothingReturned == [what |-> "nothing", value |-> NoId]

\* A file of the output directory that does not exist.
NoFile == [exists |-> FALSE, items |-> <<>>, readable |-> TRUE]

\* No attach call has stored an attachment.
NoAttach ==
    [kind |-> "none", envMode |-> "", cacheDisabled |-> FALSE, copyOk |-> TRUE,
     stored |-> [path |-> "", original_path |-> "", known |-> FALSE, exc |-> "none"]]

\* No clamp utility has been called.
NoCall == [fn |-> "none", input |-> <<>>, limit |-> 0, out |-> <<>>]

\* The processes of a distributed run: 0 is the coordinating one.
Processes == 0..MaxWorkers

\* A process's plugin before pytest_configure, and a worker's input before
\* the coordinating process has configured its node.
NoPlugin == [pc |-> "new", instance |-> FALSE, run_id |-> NoId,
             session_id |-> <<>>, config_run_id |-> NoId]
NoInput == [handed |-> FALSE, config |-> FALSE, run_id |-> NoId, session_id |-> <<>>]

\* The handlers built in one process, and no update_result call yet.
Handlers == {1, 2}
NoUpdate == [called |-> FALSE, args |-> <<>>, exc |-> "none", requests |-> <<>>]

\* The backup document: {"count": N, "items": [...]}, or no file at all.
NoBackup == [written |-> FALSE, count |-> 0, items |-> <<>>]

\* The objects a handler call reads and writes.
Heap ==
    [res |-> results, tr |-> test_results, cur |-> current_test,
     batch |-> batch_results, srv |-> server, tot |-> totals,
     calls |-> <<>>, logs |-> <<>>, att |-> NoAttach, exc |-> "none"]

Bind(S, F(_)) == UNION {F(h) : h \in S}

Raise(h, e) == [h EXCEPT !.exc = e]
Caught(h, msg) == [h EXCEPT !.exc = "none", !.logs = Append(@, msg)]
Logged(h, msg) == [h EXCEPT !.logs = Append(@, msg)]
RemoteCall(h, op, id, att, out) ==
    [h EXCEPT !.calls = Append(@, [op |-> op, id |-> id, att |-> att, out |-> out])]

\* Mutant of SetStatus: the test's outcome is written in place of the
\* reporting status.
SetStatus_WritesOutcome(h, t, s) == [h EXCEPT !.res[t].status = s]

\* result.reporting_status = ReportingStatus.<s>
SetStatus(h, t, s) == [h EXCEPT !.res[t].reporting_status = s]

\* ------------------------------------------------------- ContextService
\* start_test and finish_test also notify the registered observers, which
\* hold no state of this model.  The field phase of a result records where
\* the upstream adapter is with that test (new, started, finished).
StartTest(h, t) ==
    [h EXCEPT !.cur = t,
              !.tr = IF session.active /\ ~(\E i \in 1..Len(@) : @[i] = t)
                     THEN Append(@, t) ELSE @]

\* Mutant of FinishTest: the current-test pointer is left alone.
FinishTest_KeepsPointer(h, t) ==
    [h EXCEPT !.tr = IF session.active /\ ~(\E i \in 1..Len(@) : @[i] = t)
                     THEN Append(@, t) ELSE @]

FinishTest(h, t) ==
    [h EXCEPT !.cur = NoId,
              !.tr = IF session.active /\ ~(\E i \in 1..Len(@) : @[i] = t)
                     THEN Append(@, t) ELSE @]

GetResults(h) == IF session.active THEN h.tr ELSE <<>>

Range(seq) == {seq[k] : k \in 1..Len(seq)}

\* add_tag: appended to the current test's tags unless already there.
AddTagOp(h, tag) ==
    IF h.cur = NoId \/ tag \in Range(h.res[h.cur].tags) THEN h
    ELSE [h EXCEPT !.res[h.cur].tags = Append(@, tag)]

\* add_tags: new_tags = [t for t in tags if t not in ctx.tags], then
\* ctx.tags.extend(new_tags) when new_tags is not empty.
AddTagsOp(h, tags) ==
    IF h.cur = NoId THEN h
    ELSE LET new_tags == SelectSeq(tags, LAMBDA x : x \notin Range(h.res[h.cur].tags))
         IN IF new_tags # <<>>
            THEN [h EXCEPT !.res[h.cur].tags = @ \o new_tags]
            ELSE h

\* dict[key] = value and dict.update(kwargs) on a dict kept as its items
SetItem(attributes, key, value) ==
    {p \in attributes : p[1] # key} \cup {<<key, value>>}
Update(attributes, kwargs) ==
    {p \in attributes : \A q \in kwargs : q[1] # p[1]} \cup kwargs

SetNameOp(h, name) ==
    IF h.cur = NoId THEN h ELSE [h EXCEPT !.res[h.cur].name = name]

AddAttributesOp(h, kwargs) ==
    IF h.cur = NoId THEN h
    ELSE [h EXCEPT !.res[h.cur].attributes = Update(@, kwargs)]

SetDescriptionOp(h, description) ==
    IF h.cur = NoId THEN h
    ELSE [h EXCEPT !.res[h.cur].attributes =
                       SetItem(@, "__proofy_description", description)]

\* Mutant of SetSeverityOp: no guard on the current test, so the attribute
\* access on None raises.
SetSeverityOp_Unguarded(h, severity) ==
    IF h.cur = NoId THEN Raise(h, "AttributeError")
    ELSE [h EXCEPT !.res[h.cur].attributes =
                       SetItem(@, "__proofy_severity", severity)]

SetSeverityOp(h, severity) ==
    IF h.cur = NoId THEN h
    ELSE [h EXCEPT !.res[h.cur].attributes =
                       SetItem(@, "__proofy_severity", severity)]

\* ------------------------------------------------------- ResultsHandler
\* Mutant of SendTestResult: a failed create leaves the reporting status alone.
SendTestResult_NoFailedMark(h, t) ==
    IF ~client
    THEN {Raise(Logged(h, "send_failed"), "RuntimeError")}
    ELSE LET n == h.srv.nextResult
             counted == [h EXCEPT !.tot.create[t] = @ + 1]
             ok == [RemoteCall(counted, "create_result", t, 0, "ok")
                      EXCEPT !.res[t].reporting_status = "FINISHED",
                             !.res[t].result_id = n,
                             !.srv.nextResult = n + 1]
             failed(out) ==
                 Raise(Logged(RemoteCall(counted, "create_result", t, 0, "error"),
                              "send_failed"),
                       "RuntimeError")
         IN {ok} \cup {failed(out) : out \in CreateOutcomes \ {"ok"}}

\* Mutant of SendTestResult: a failed create marks the result FINISHED.
SendTestResult_FinishedOnFailure(h, t) ==
    IF ~client
    THEN {Raise(Logged(SetStatus(h, t, "FINISHED"), "send_failed"), "RuntimeError")}
    ELSE LET n == h.srv.nextResult
             counted == [h EXCEPT !.tot.create[t] = @ + 1]
             ok == [RemoteCall(counted, "create_result", t, 0, "ok")
                      EXCEPT !.res[t].reporting_status = "FINISHED",
                             !.res[t].result_id = n,
                             !.srv.nextResult = n + 1]
             failed(out) ==
                 Raise(Logged(SetStatus(RemoteCall(counted, "create_result", t, 0, "error"),
                                        t, "FINISHED"), "send_failed"),
                       "RuntimeError")
         IN {ok} \cup {failed(out) : out \in CreateOutcomes \ {"ok"}}

\* send_test_result: one create-result call; the answer is an integer id,
\* an exception, or a response whose "id" is not an integer; the last two
\* are handled by the same except clause.  With no client the attribute
\* access on None raises inside the try block.
SendTestResult(h, t) ==
    IF ~client
    THEN {Raise(Logged(SetStatus(h, t, "FAILED"), "send_failed"), "RuntimeError")}
    ELSE LET n == h.srv.nextResult
             counted == [h EXCEPT !.tot.create[t] = @ + 1]
             ok == [RemoteCall(counted, "create_result", t, 0, "ok")
                      EXCEPT !.res[t].reporting_status = "FINISHED",
                             !.res[t].result_id = n,
                             !.srv.nextResult = n + 1]
             failed(out) ==
                 Raise(Logged(SetStatus(RemoteCall(counted, "create_result", t, 0, "error"),
                                        t, "FAILED"), "send_failed"),
                       "RuntimeError")
         IN {ok} \cup {failed(out) : out \in CreateOutcomes \ {"ok"}}

\* update_test_result: one update-result call.
UpdateTestResult(h, t) ==
    IF ~client
    THEN {Raise(Logged(SetStatus(h, t, "FAILED"), "update_failed"), "RuntimeError")}
    ELSE LET counted == [h EXCEPT !.tot.update[t] = @ + 1]
         IN {SetStatus(RemoteCall(counted, "update_result", t, 0, "ok"), t, "FINISHED"),
             Raise(Logged(SetStatus(RemoteCall(counted, "update_result", t, 0, "error"),
                                    t, "FAILED"), "update_failed"),
                   "RuntimeError")}

\* Mutant of UploadAttachment: an attachment with a remote_id is sent again.
UploadAttachment_NoSkip(h, t, i) ==
    LET a == h.res[t].attachments[i]
        op == IF a.known THEN "upload_artifact_file" ELSE "upload_artifact"
        sent(out) == RemoteCall([h EXCEPT !.res[t].attachments[i].uploads = @ + 1],
                                op, t, i, out)
        deleted(g) == IF a.cached
                      THEN [g EXCEPT !.res[t].attachments[i].exists = FALSE]
                      ELSE g
        failed(g, e) == Raise(Logged(g, "upload_attachment_failed"), e)
    IN IF h.res[t].run_id = NoId \/ h.res[t].result_id = NoId
       THEN {failed(h, "RuntimeError")}
       ELSE IF ~client THEN {failed(h, "AttributeError")}
       ELSE IF ~a.exists THEN {failed(sent("error"), "FileNotFoundError")}
       ELSE {g \in {deleted([sent("artifact")
                        EXCEPT !.res[t].attachments[i].remote_id = h.srv.nextArtifact,
                               !.srv.nextArtifact = @ + 1]),
                     deleted(sent("status")),
                     sent("unconfirmed"),
                     failed(sent("error"), "ClientError")} :
                g.calls[Len(g.calls)].out \in clientUploads}

\* Mutant of UploadAttachment: run_id and result_id are not required.
UploadAttachment_NoIdCheck(h, t, i) ==
    LET a == h.res[t].attachments[i]
        op == IF a.known THEN "upload_artifact_file" ELSE "upload_artifact"
        sent(out) == RemoteCall([h EXCEPT !.res[t].attachments[i].uploads = @ + 1],
                                op, t, i, out)
        deleted(g) == IF a.cached
                      THEN [g EXCEPT !.res[t].attachments[i].exists = FALSE]
                      ELSE g
        failed(g, e) == Raise(Logged(g, "upload_attachment_failed"), e)
    IN IF a.remote_id # NoId THEN {h}
       ELSE IF ~client THEN {failed(h, "AttributeError")}
       ELSE IF ~a.exists THEN {failed(sent("error"), "FileNotFoundError")}
       ELSE {g \in {deleted([sent("artifact")
                        EXCEPT !.res[t].attachments[i].remote_id = h.srv.nextArtifact,
                               !.srv.nextArtifact = @ + 1]),
                     deleted(sent("status")),
                     sent("unconfirmed"),
                     failed(sent("error"), "ClientError")} :
                g.calls[Len(g.calls)].out \in clientUploads}

\* Mutant of UploadAttachment: the local file is deleted after every upload
\* call that returns, cache-owned or not, confirmed or not.
UploadAttachment_DeletesAlways(h, t, i) ==
    LET a == h.res[t].attachments[i]
        op == IF a.known THEN "upload_artifact_file" ELSE "upload_artifact"
        sent(out) == RemoteCall([h EXCEPT !.res[t].attachments[i].uploads = @ + 1],
                                op, t, i, out)
        deleted(g) == [g EXCEPT !.res[t].attachments[i].exists = FALSE]
        failed(g, e) == Raise(Logged(g, "upload_attachment_failed"), e)
    IN IF a.remote_id # NoId THEN {h}
       ELSE IF h.res[t].run_id = NoId \/ h.res[t].result_id = NoId
       THEN {failed(h, "RuntimeError")}
       ELSE IF ~client THEN {failed(h, "AttributeError")}
       ELSE IF ~a.exists THEN {failed(sent("error"), "FileNotFoundError")}
       ELSE {g \in {deleted([sent("artifact")
                        EXCEPT !.res[t].attachments[i].remote_id = h.srv.nextArtifact,
                               !.srv.nextArtifact = @ + 1]),
                     deleted(sent("status")),
                     deleted(sent("unconfirmed")),
                     failed(sent("error"), "ClientError")} :
                g.calls[Len(g.calls)].out \in clientUploads}

\* _upload_attachment: skip when remote_id is set; needs run_id and
\* result_id; fast path when size and hash are known; records the artifact
\* id; deletes the local file on confirmed success when it is cache-owned.
\* The client answers with an artifact id ("artifact"), with a success
\* status and no artifact id ("status"), with neither ("unconfirmed"), or
\* raises; it raises when the local file is gone.  Every exception is
\* printed and re-raised.
UploadAttachment(h, t, i) ==
    LET a == h.res[t].attachments[i]
        op == IF a.known THEN "upload_artifact_file" ELSE "upload_artifact"
        sent(out) == RemoteCall([h EXCEPT !.res[t].attachments[i].uploads = @ + 1],
                                op, t, i, out)
        deleted(g) == IF a.cached
                      THEN [g EXCEPT !.res[t].attachments[i].exists = FALSE]
                      ELSE g
        failed(g, e) == Raise(Logged(g, "upload_attachment_failed"), e)
    IN IF a.remote_id # NoId THEN {h}
       ELSE IF h.res[t].run_id = NoId \/ h.res[t].result_id = NoId
       THEN {failed(h, "RuntimeError")}
       ELSE IF ~client THEN {failed(h, "AttributeError")}
       ELSE IF ~a.exists THEN {failed(sent("error"), "FileNotFoundError")}
       ELSE {g \in {deleted([sent("artifact")
                        EXCEPT !.res[t].attachments[i].remote_id = h.srv.nextArtifact,
                               !.srv.nextArtifact = @ + 1]),
                     deleted(sent("status")),
                     sent("unconfirmed"),
                     failed(sent("error"), "ClientError")} :
                g.calls[Len(g.calls)].out \in clientUploads}

\* for attachment in result.attachments: self._upload_attachment(...)
\* with nothing caught: the first exception ends the loop.
RECURSIVE UploadAll(_, _, _)
UploadAll(h, t, i) ==
    IF i > Len(h.res[t].attachments) THEN {h}
    ELSE Bind(UploadAttachment(h, t, i),
              LAMBDA g : IF g.exc # "none" THEN {g} ELSE UploadAll(g, t, i + 1))

\* The same loop with each upload in its own try/except that only logs.
RECURSIVE UploadAllLogged(_, _, _)
UploadAllLogged(h, t, i) ==
    IF i > Len(h.res[t].attachments) THEN {h}
    ELSE Bind(UploadAttachment(h, t, i),
              LAMBDA g : UploadAllLogged(
                  IF g.exc # "none" THEN Caught(g, "upload_failed") ELSE g, t, i + 1))

\* Mutant of StoreResultLive: the result_id test is dropped, every call creates.
StoreResultLive_AlwaysCreates(h, t) ==
    {IF g.exc = "none"
     THEN SetStatus(g, t, "INITIALIZED")
     ELSE Raise(Logged(g, "live_failed"), "RuntimeError")
     : g \in SendTestResult(h, t)}

\* Mutant of StoreResultLive: failures are logged and not raised.
StoreResultLive_Swallows(h, t) ==
    IF h.res[t].result_id = NoId
    THEN {IF g.exc = "none"
          THEN SetStatus(g, t, "INITIALIZED")
          ELSE Caught(g, "live_failed")
          : g \in SendTestResult(h, t)}
    ELSE IF h.res[t].reporting_status = "INITIALIZED"
    THEN LET updated == UpdateTestResult(h, t)
             uploaded == Bind(updated,
                              LAMBDA g : IF g.exc # "none" THEN {g}
                                         ELSE UploadAll(g, t, 1))
         IN {FinishTest(IF g.exc = "none"
                        THEN SetStatus(g, t, "FINISHED")
                        ELSE Caught(SetStatus(g, t, "FAILED"), "live_failed"),
                        t)
             : g \in uploaded}
    ELSE {h}

\* _store_result_live: create when there is no result_id (and return);
\* otherwise, when INITIALIZED, update, upload, mark, and finish_test.
StoreResultLive(h, t) ==
    IF h.res[t].result_id = NoId
    THEN {IF g.exc = "none"
          THEN SetStatus(g, t, "INITIALIZED")
          ELSE Raise(Logged(g, "live_failed"), "RuntimeError")
          : g \in SendTestResult(h, t)}
    ELSE IF h.res[t].reporting_status = "INITIALIZED"
    THEN LET updated == UpdateTestResult(h, t)
             uploaded == Bind(updated,
                              LAMBDA g : IF g.exc # "none" THEN {g}
                                         ELSE UploadAll(g, t, 1))
         IN {FinishTest(IF g.exc = "none"
                        THEN SetStatus(g, t, "FINISHED")
                        ELSE Raise(Logged(SetStatus(g, t, "FAILED"), "live_failed"),
                                   "RuntimeError"),
                        t)
             : g \in uploaded}
    ELSE {h}

\* Mutant of StoreResultLazy: the result is sent as soon as it finishes.
StoreResultLazy_Sends(h, t) ==
    {FinishTest([g EXCEPT !.exc = "none"], t) : g \in SendTestResult(h, t)}

\* _store_result_lazy
StoreResultLazy(h, t) == {FinishTest(h, t)}

\* send_result_lazy: every recorded result is sent; a failed create is
\* logged and the loop goes on; a failed upload is logged and re-raised.
RECURSIVE LazyLoop(_, _, _)
LazyLoop(h, ids, k) ==
    IF k > Len(ids) THEN {h}
    ELSE LET t == ids[k]
         IN Bind(SendTestResult(h, t),
                 LAMBDA g :
                     IF g.exc # "none"
                     THEN LazyLoop(Caught(SetStatus(g, t, "FAILED"), "lazy_send_failed"),
                                   ids, k + 1)
                     ELSE Bind(UploadAll(SetStatus(g, t, "FINISHED"), t, 1),
                               LAMBDA u :
                                   IF u.exc # "none"
                                   THEN {Logged(u, "lazy_upload_failed")}
                                   ELSE LazyLoop(u, ids, k + 1)))

\* Mutant of SendResultLazy: the first failed create ends the loop.
RECURSIVE LazyLoopStops(_, _, _)
LazyLoopStops(h, ids, k) ==
    IF k > Len(ids) THEN {h}
    ELSE LET t == ids[k]
         IN Bind(SendTestResult(h, t),
                 LAMBDA g :
                     IF g.exc # "none"
                     THEN {Logged(SetStatus(g, t, "FAILED"), "lazy_send_failed")}
                     ELSE Bind(UploadAll(SetStatus(g, t, "FINISHED"), t, 1),
                               LAMBDA u :
                                   IF u.exc # "none"
                                   THEN {Logged(u, "lazy_upload_failed")}
                                   ELSE LazyLoopStops(u, ids, k + 1)))

SendResultLazy_StopsOnCreateFailure(h) == LazyLoopStops(h, GetResults(h), 1)

SendResultLazy(h) == LazyLoop(h, GetResults(h), 1)

\* send_batch: every queued id is sent, failures of create and of upload
\* are logged, and the queue is cleared.
RECURSIVE BatchLoop(_, _, _)
BatchLoop(h, ids, k) ==
    IF k > Len(ids) THEN {h}
    ELSE LET t == ids[k]
         IN Bind(SendTestResult(h, t),
                 LAMBDA g :
                     IF g.exc # "none"
                     THEN BatchLoop(Caught(SetStatus(g, t, "FAILED"), "batch_send_failed"),
                                    ids, k + 1)
                     ELSE Bind(UploadAllLogged(SetStatus(g, t, "FINISHED"), t, 1),
                               LAMBDA u : BatchLoop(u, ids, k + 1)))

\* Mutant of SendBatch: the queue is not cleared after sending.
SendBatch_KeepsQueue(h) ==
    IF ~client \/ mode # "batch" \/ h.batch = <<>> THEN {h}
    ELSE BatchLoop(h, h.batch, 1)

SendBatch(h) ==
    IF ~client \/ mode # "batch" \/ h.batch = <<>> THEN {h}
    ELSE {[g EXCEPT !.batch = <<>>] : g \in BatchLoop(h, h.batch, 1)}

\* os.environ.get("PROOFY_BATCH_SIZE", 100): the int 100 when the variable
\* is unset, otherwise the variable's value, a str.
BatchSize ==
    IF envBatchSize.set
    THEN [type |-> "str", value |-> envBatchSize.digits]
    ELSE [type |-> "int", value |-> DefaultBatchSize]

\* _store_result_batch: queue the id, finish_test, compare the queue length
\* with the batch size (int >= str raises TypeError), send when reached.
StoreResultBatch(h, t) ==
    LET queued == FinishTest([h EXCEPT !.batch = Append(@, t)], t)
    IN IF BatchSize.type = "str" THEN {Raise(queued, "TypeError")}
       ELSE IF Len(queued.batch) >= BatchSize.value THEN SendBatch(queued)
       ELSE {queued}

\* flush_results
FlushResultsOp(h) ==
    IF mode = "batch" THEN SendBatch(h)
    ELSE IF mode = "lazy" THEN SendResultLazy(h)
    ELSE {h}

\* Mutant of FinishRunOp: the run is finalized without flushing.
FinishRunOp_NoFlush(h) ==
    IF ~client THEN {h}
    ELSE IF run_id = NoId THEN {Raise(h, "RuntimeError")}
    ELSE {[RemoteCall(h, "update_run", 0, 0, "ok") EXCEPT !.srv.run = "FINISHED"],
          Raise(RemoteCall(h, "update_run", 0, 0, "error"), "RuntimeError")}

\* Mutant of FinishRunOp: an exception of the flush ends finish_run.
FinishRunOp_StopsOnFlushError(h) ==
    IF ~client THEN {h}
    ELSE IF run_id = NoId THEN {Raise(h, "RuntimeError")}
    ELSE Bind(FlushResultsOp(h),
              LAMBDA f :
                  IF f.exc # "none" THEN {f}
                  ELSE {[RemoteCall(f, "update_run", 0, 0, "ok")
                           EXCEPT !.srv.run = "FINISHED"],
                        Raise(RemoteCall(f, "update_run", 0, 0, "error"),
                              "RuntimeError")})

\* finish_run: nothing without a client; an error without a run id; flush
\* (exceptions logged), then one update-run call marking the run FINISHED.
FinishRunOp(h) ==
    IF ~client THEN {h}
    ELSE IF run_id = NoId THEN {Raise(h, "RuntimeError")}
    ELSE Bind(FlushResultsOp(h),
              LAMBDA f :
                  LET g == IF f.exc # "none" THEN Caught(f, "flush_failed") ELSE f
                  IN {[RemoteCall(g, "update_run", 0, 0, "ok")
                         EXCEPT !.srv.run = "FINISHED"],
                      Raise(RemoteCall(g, "update_run", 0, 0, "error"),
                            "RuntimeError")})

\* Mutant of OnTestStartedOp: a failed create is raised and start_test skipped.
OnTestStartedOp_Reraises(h, t) ==
    IF ~client \/ mode # "live" THEN {StartTest(h, t)}
    ELSE IF h.res[t].run_id = NoId THEN {StartTest(Raise(h, "ValueError"), t)}
    ELSE {IF g.exc # "none" THEN g ELSE StartTest(g, t)
          : g \in StoreResultLive(h, t)}

\* on_test_started: in live mode with a client, create the result (failures
\* logged only); start_test runs in the finally clause in every case.
OnTestStartedOp(h, t) ==
    IF ~client \/ mode # "live" THEN {StartTest(h, t)}
    ELSE IF h.res[t].run_id = NoId THEN {StartTest(Raise(h, "ValueError"), t)}
    ELSE {StartTest(IF g.exc # "none" THEN Caught(g, "start_failed") ELSE g, t)
          : g \in StoreResultLive(h, t)}

\* on_test_finished: dispatch on the delivery mode.
OnTestFinishedOp(h, t) ==
    IF mode = "live" THEN StoreResultLive(h, t)
    ELSE IF mode = "lazy" THEN StoreResultLazy(h, t)
    ELSE IF mode = "batch" THEN StoreResultBatch(h, t)
    ELSE {Raise(h, "ValueError")}

\* backup_results: create the output directory, convert every result of the
\* session, ask self._results_path_for_current_process() for the file name
\* and write {"count": N, "items": [...]}.  ResultsHandler has no attribute
\* of that name: the call raises AttributeError, which the except clause
\* logs, and nothing is written.
BackupResultsOp(h) ==
    LET data == GetResults(h)
        document == [written |-> TRUE, count |-> Len(data), items |-> data]
        results_file == "AttributeError"
    IN IF results_file = "AttributeError"
       THEN [heap |-> Caught(Raise(h, "AttributeError"), "backup_failed"),
             file |-> backup]
       ELSE [heap |-> Logged(h, "backed_up"), file |-> document]

\* should_cache_for_mode: caching is skipped only in live mode with the
\* attachment cache disabled.
ShouldCacheForMode(envMode, cacheDisabled) == ~(envMode = "live" /\ cacheDisabled)

\* The paths attach can store: the path it was given, outside the cache
\* directory ("source") or inside it ("cache_given"), a copy of the given
\* file in the cache ("cache_copy"), a cache file written from content.
IsCachedPath(path) == path \in {"cache_given", "cache_copy", "cache_file"}

\* Mutant of AttachDecision: in-memory content follows the caching setting.
AttachDecision_ContentFollowsSetting(kind, envMode, cacheDisabled, copyOk) ==
    IF kind \in {"path", "cached_path"}
    THEN LET given == IF kind = "path" THEN "source" ELSE "cache_given"
         IN IF ShouldCacheForMode(envMode, cacheDisabled)
               /\ ~IsCachedPath(given) /\ copyOk
            THEN [path |-> "cache_copy", original_path |-> given,
                  known |-> TRUE, exc |-> "none"]
            ELSE [path |-> given, original_path |-> given,
                  known |-> FALSE, exc |-> "none"]
    ELSE [path |-> IF ShouldCacheForMode(envMode, cacheDisabled)
                   THEN "cache_file" ELSE "",
          original_path |-> IF kind = "bytes" THEN "<bytes>" ELSE "<stream>",
          known |-> ShouldCacheForMode(envMode, cacheDisabled), exc |-> "none"]

\* Mutant of AttachDecision: a failed copy to the cache is raised.
AttachDecision_RaisesCopyFailure(kind, envMode, cacheDisabled, copyOk) ==
    IF kind \in {"path", "cached_path"}
    THEN LET given == IF kind = "path" THEN "source" ELSE "cache_given"
         IN IF ShouldCacheForMode(envMode, cacheDisabled) /\ ~IsCachedPath(given)
            THEN IF copyOk
                 THEN [path |-> "cache_copy", original_path |-> given,
                       known |-> TRUE, exc |-> "none"]
                 ELSE [path |-> given, original_path |-> given,
                       known |-> FALSE, exc |-> "FileNotFoundError"]
            ELSE [path |-> given, original_path |-> given,
                  known |-> FALSE, exc |-> "none"]
    ELSE [path |-> "cache_file",
          original_path |-> IF kind = "bytes" THEN "<bytes>" ELSE "<stream>",
          known |-> TRUE, exc |-> "none"]

\* What ContextService.attach stores for an input of the given kind, with
\* PROOFY_MODE = envMode: a path ("path": outside the cache directory,
\* "cached_path": already inside it) is copied to the cache when caching
\* applies, the path is not yet a cache path and the copy succeeds, and is
\* stored as given otherwise; in-memory content ("bytes", "stream") is always
\* written to the cache.  known: size and sha256 are recorded.
AttachDecision(kind, envMode, cacheDisabled, copyOk) ==
    IF kind \in {"path", "cached_path"}
    THEN LET given == IF kind = "path" THEN "source" ELSE "cache_given"
         IN IF ShouldCacheForMode(envMode, cacheDisabled)
               /\ ~IsCachedPath(given) /\ copyOk
            THEN [path |-> "cache_copy", original_path |-> given,
                  known |-> TRUE, exc |-> "none"]
            ELSE [path |-> given, original_path |-> given,
                  known |-> FALSE, exc |-> "none"]
    ELSE [path |-> "cache_file",
          original_path |-> IF kind = "bytes" THEN "<bytes>" ELSE "<stream>",
          known |-> TRUE, exc |-> "none"]

\* ContextService.attach on the current test.  The field cached of an
\* attachment is is_cached_path(attachment.path).
AttachEnvOp(h, kind, envMode, cacheDisabled, copyOk) ==
    LET t == h.cur
        d == AttachDecision(kind, envMode, cacheDisabled, copyOk)
        called == [h EXCEPT !.att = [kind |-> kind, envMode |-> envMode,
                                     cacheDisabled |-> cacheDisabled,
                                     copyOk |-> copyOk, stored |-> d]]
    IN IF t = NoId THEN h
       ELSE IF d.exc # "none" THEN Raise(called, d.exc)
       ELSE [called EXCEPT !.res[t].attachments =
                               Append(@, NewAttachment(IsCachedPath(d.path), d.known))]

\* attach in a session of the handler, where PROOFY_MODE is the handler's mode
AttachOp(h, kind, cacheDisabled, copyOk) ==
    AttachEnvOp(h, kind, mode, cacheDisabled, copyOk)

\* ------------------------------------------------------ the clamp utilities
\* Strings are sequences of characters; a value is a string, None, an int
\* (s holds its digits) or an object json cannot serialise (s holds its repr).
Str(s) == [kind |-> "str", s |-> s]
None == [kind |-> "none", s |-> <<>>]
Num(s) == [kind |-> "int", s |-> s]
Obj(s) == [kind |-> "obj", s |-> s]
Rep(c, n) == [k \in 1..n |-> c]
Returned(v) == [exc |-> "none", value |-> v]
Raised(e) == [exc |-> e, value |-> <<>>]

\* s[:n]
Slice(s, n) ==
    IF n >= 0 THEN SubSeq(s, 1, IF n < Len(s) THEN n ELSE Len(s))
    ELSE SubSeq(s, 1, IF Len(s) + n > 0 THEN Len(s) + n ELSE 0)

\* json.dumps(..., ensure_ascii=False) of values whose strings need no escape
Quote == "\""
JsonStr(s) == <<Quote>> \o s \o <<Quote>>
Serialisable(v) == v.kind # "obj"
JsonValue(v) ==
    IF v.kind = "str" THEN JsonStr(v.s)
    ELSE IF v.kind = "none" THEN <<"n", "u", "l", "l">>
    ELSE v.s

RECURSIVE Join(_)
Join(parts) ==
    IF parts = <<>> THEN <<>>
    ELSE IF Len(parts) = 1 THEN parts[1]
    ELSE parts[1] \o <<",", " ">> \o Join(Tail(parts))

JsonList(items) ==
    <<"[">> \o Join([k \in 1..Len(items) |-> JsonValue(items[k])]) \o <<"]">>

JsonDict(pairs) ==
    <<"{">>
    \o Join([k \in 1..Len(pairs) |->
                JsonStr(pairs[k][1]) \o <<":", " ">> \o JsonValue(pairs[k][2])])
    \o <<"}">>

\* dict[key] = value on a dict kept as its items in insertion order
HasKey(pairs, key) == \E k \in 1..Len(pairs) : pairs[k][1] = key
Put(pairs, key, value) ==
    IF HasKey(pairs, key)
    THEN [k \in 1..Len(pairs) |->
             IF pairs[k][1] = key THEN <<key, value>> ELSE pairs[k]]
    ELSE Append(pairs, <<key, value>>)

ATTRIBUTE_KEY_LIMIT == 65
ATTRIBUTE_VALUE_LIMIT == 256
Dots == <<".", ".", ".">>

clamp_string_KeepsOneMore(value, limit) ==
    IF value.kind = "none" THEN value
    ELSE IF Len(value.s) <= limit THEN value
    ELSE [value EXCEPT !.s = Slice(value.s, limit + 1)]

clamp_string(value, limit) ==
    IF value.kind = "none" THEN value
    ELSE IF Len(value.s) <= limit THEN value
    ELSE [value EXCEPT !.s = Slice(value.s, limit)]

RECURSIVE AttributesLoop_LastWins(_, _)
AttributesLoop_LastWins(attributes, limited) ==
    IF attributes = <<>> THEN limited
    ELSE LET key == attributes[1][1]
             value == attributes[1][2]
             clamped_key == clamp_string(Str(key.s), ATTRIBUTE_KEY_LIMIT).s
             limited_value ==
                 IF value.kind = "str"
                 THEN clamp_string(value, ATTRIBUTE_VALUE_LIMIT)
                 ELSE value
         IN IF clamped_key = <<>>
            THEN AttributesLoop_LastWins(Tail(attributes), limited)
            ELSE AttributesLoop_LastWins(Tail(attributes),
                                         Put(limited, clamped_key, limited_value))

\* The loop of clamp_attributes over the items not yet seen; str(key) is key.s.
RECURSIVE AttributesLoop(_, _)
AttributesLoop(attributes, limited) ==
    IF attributes = <<>> THEN limited
    ELSE LET key == attributes[1][1]
             value == attributes[1][2]
             clamped_key == clamp_string(Str(key.s), ATTRIBUTE_KEY_LIMIT).s
             limited_value ==
                 IF value.kind = "str"
                 THEN clamp_string(value, ATTRIBUTE_VALUE_LIMIT)
                 ELSE value
         IN IF clamped_key = <<>>
            THEN AttributesLoop(Tail(attributes), limited)
            ELSE IF HasKey(limited, clamped_key)
            THEN AttributesLoop(Tail(attributes), limited)
            ELSE AttributesLoop(Tail(attributes),
                                Put(limited, clamped_key, limited_value))

clamp_attributes(attributes) ==
    IF attributes = <<>> THEN <<>> ELSE AttributesLoop(attributes, <<>>)

\* The loop of limit_list_strings from item i on.
RECURSIVE ListLoop(_, _, _, _)
ListLoop(values, limit, limited, i) ==
    IF i > Len(values) THEN limited
    ELSE IF Len(JsonList(Append(limited, values[i]))) <= limit
         THEN ListLoop(values, limit, Append(limited, values[i]), i + 1)
         ELSE limited

limit_list_strings(values, limit) ==
    IF values = <<>> THEN <<>>
    ELSE LET limited == ListLoop(values, limit, <<>>, 1)
         IN IF Len(limited) < Len(values)
               /\ Len(JsonList(Append(limited, Str(Dots)))) <= limit
            THEN Append(limited, Str(<<"[">> \o Dots \o <<"]">>))
            ELSE limited

\* json.dumps(candidate) raises TypeError on a value it cannot serialise.
Dumpable(pairs) == \A k \in 1..Len(pairs) : Serialisable(pairs[k][2])

\* The loop of limit_dict_strings from item i on: the candidate holds the
\* values kept so far as they are and the new value, or its repr.
RECURSIVE DictLoop(_, _, _, _)
DictLoop(values, limit, limited, i) ==
    IF i > Len(values) THEN Returned(limited)
    ELSE LET key == values[i][1]
             value == values[i][2]
             candidate_value == IF Serialisable(value) THEN value ELSE Str(value.s)
             candidate == Put(limited, key, candidate_value)
         IN IF ~Dumpable(candidate) THEN Raised("TypeError")
            ELSE IF Len(JsonDict(candidate)) <= limit
            THEN DictLoop(values, limit, Put(limited, key, value), i + 1)
            ELSE Returned(limited)

limit_dict_strings(values, limit) ==
    IF values = <<>> THEN Returned(<<>>)
    ELSE LET looped == DictLoop(values, limit, <<>>, 1)
             limited == looped.value
             candidate == Put(limited, Dots, Str(Dots))
         IN IF looped.exc # "none" THEN looped
            ELSE IF Len(limited) < Len(values)
            THEN IF ~Dumpable(candidate) THEN Raised("TypeError")
                 ELSE IF Len(JsonDict(candidate)) <= limit
                 THEN Returned(candidate)
                 ELSE looped
            ELSE looped

\* Mutant of StartRunOp: a failed create-run call is tried once more.
StartRunOp_Retries(h, given, out) ==
    LET called == RemoteCall(h, "create_run", 0, 0,
                             IF out = "ok" THEN "ok" ELSE "error")
    IN IF ~client \/ ~project_id THEN h
       ELSE IF given THEN Raise(h, "RuntimeError")
       ELSE IF out = "ok" THEN [called EXCEPT !.srv.run = "STARTED"]
       ELSE Raise(Logged(RemoteCall(called, "create_run", 0, 0, "error"),
                         "run_failed"), "RuntimeError")

\* start_run(run_id = given): the heap it leaves when the create-run call
\* answers `out` (a response with an id, an exception, a response without id).
StartRunOp(h, given, out) ==
    LET called == RemoteCall(h, "create_run", 0, 0,
                             IF out = "ok" THEN "ok" ELSE "error")
    IN IF ~client \/ ~project_id THEN h
       ELSE IF given THEN Raise(h, "RuntimeError")
       ELSE IF out = "ok" THEN [called EXCEPT !.srv.run = "STARTED"]
       ELSE Raise(Logged(called, "run_failed"), "RuntimeError")

\* ---------------------------------------------------------------- actions
Commit(h, op, t) ==
    /\ results' = h.res
    /\ test_results' = h.tr
    /\ current_test' = h.cur
    /\ batch_results' = h.batch
    /\ server' = h.srv
    /\ totals' = h.tot
    /\ lastCalls' = h.calls
    /\ lastLogs' = h.logs
    /\ lastAttach' = h.att
    /\ lastOp' = [op |-> op, id |-> t, exc |-> h.exc]
    /\ clientAnswers' =
          IF op = "start_run" THEN clientAnswers
          ELSE [ok |-> clientAnswers.ok
                       \/ \E k \in 1..Len(h.calls) : h.calls[k].out # "error",
                error |-> clientAnswers.error
                          \/ \E k \in 1..Len(h.calls) : h.calls[k].out = "error"]

\* The handler, the context service and the server before the first call.
Fresh ==
    /\ pc = "init"
    /\ run_id = NoId
    /\ session = [active |-> FALSE, run_id |-> NoId]
    /\ test_results = <<>>
    /\ current_test = NoId
    /\ results = [t \in Tests |-> NewResult]
    /\ batch_results = <<>>
    /\ server = [nextResult |-> 1, nextArtifact |-> 1, run |-> "none"]
    /\ totals = [create |-> [t \in Tests |-> 0], update |-> [t \in Tests |-> 0]]
    /\ flushes = 0
    /\ clientAnswers = [ok |-> FALSE, error |-> FALSE]
    /\ backup = NoBackup
    /\ lastOp = [op |-> "init", id |-> NoId, exc |-> "none"]
    /\ lastCalls = <<>>
    /\ lastLogs = <<>>
    /\ limits = NoCall
    /\ lastAttach = NoAttach
    /\ Local = [th \in Threads |-> NoContexts]
    /\ threadPc = [th \in Threads |-> "idle"]
    /\ returned = [th \in Threads |-> NothingReturned]
    /\ lastSet = [th \in Threads |-> NoContexts]
    /\ workers = [w \in Workers |-> [pc |-> "running", results |-> <<>>]]
    /\ workerFiles = [w \in Workers |-> NoFile]
    /\ resultsFile = NoFile
    /\ masterPc = "running"
    /\ lastUpdate = NoUpdate
    /\ plugins = [p \in Processes |-> NoPlugin]
    /\ workerinput = [w \in Workers |-> NoInput]
    /\ runCalls = [create |-> <<>>, finalize |-> <<>>,
                   finalize_invoked |-> [p \in Processes |-> 0]]
    /\ handlers = [hd \in Handlers |-> NoId]
    /\ global_service = NoId
    /\ finishedBy = [t \in Tests |-> NoId]

Init ==
    /\ mode \in Modes
    /\ client \in BOOLEAN
    /\ project_id \in BOOLEAN
    /\ envBatchSize \in {[set |-> FALSE, digits |-> 0], [set |-> TRUE, digits |-> 2]}
    /\ envBatchSize.set => mode = "batch"
    /\ clientUploads = {"artifact", "status", "error"}
    /\ Fresh

\* start_run: no call without client or project id; a supplied run id is
\* not implemented; otherwise one create-run call, fatal when it fails.
StartRun ==
    /\ pc = "init"
    /\ \E given \in BOOLEAN, out \in CreateOutcomes :
          LET r == StartRunOp(Heap, given, out)
          IN /\ (~client \/ ~project_id \/ given) => out = "ok"
             /\ ~(client /\ project_id) => ~given
             /\ Commit(r, "start_run", IF given THEN 1 ELSE NoId)
             /\ run_id' = IF r.srv.run = "STARTED" THEN 1 ELSE NoId
             /\ pc' = IF r.exc = "none" THEN "run" ELSE "aborted"
    /\ UNCHANGED <<others, mode, client, project_id, envBatchSize, clientUploads, backup, session, flushes>>

\* start_session
StartSession ==
    /\ pc = "run"
    /\ session' = [active |-> TRUE, run_id |-> run_id]
    /\ pc' = "session"
    /\ Commit([Heap EXCEPT !.tr = <<>>], "start_session", NoId)
    /\ UNCHANGED <<others, mode, client, project_id, envBatchSize, clientUploads, backup, run_id, flushes>>

InProgress == {t \in Tests : results[t].phase = "started"}

OnTestStarted(t) ==
    /\ pc = "session"
    /\ InProgress = {}
    /\ results[t].phase = "new"
    /\ \A u \in 1..(t - 1) : results[u].phase = "finished"
    /\ LET h == [Heap EXCEPT !.res[t].phase = "started", !.res[t].run_id = run_id]
       IN \E g \in OnTestStartedOp(h, t) : Commit(g, "on_test_started", t)
    /\ UNCHANGED <<others, mode, client, project_id, envBatchSize, clientUploads, backup, pc, run_id, session, flushes>>

\* attach calls made so far in the session
Attached == LET n[t \in 0..MaxTests] ==
                    IF t = 0 THEN 0 ELSE n[t - 1] + Len(results[t].attachments)
            IN n[MaxTests]

Attach ==
    /\ pc = "session"
    /\ current_test \in InProgress
    /\ Attached < MaxAttachments
    /\ \E kind \in {"path", "bytes"}, cacheDisabled \in BOOLEAN, copyOk \in BOOLEAN :
          Commit(AttachOp(Heap, kind, cacheDisabled, copyOk), "attach", current_test)
    /\ UNCHANGED <<others, mode, client, project_id, envBatchSize, clientUploads, backup, pc, run_id, session, flushes>>

OnTestFinished(t) ==
    /\ pc = "session"
    /\ results[t].phase = "started"
    /\ LET h == [Heap EXCEPT !.res[t].phase = "finished",
                              !.res[t].status = OutcomeOf(t),
                              !.res[t].traceback = HasTraceback(OutcomeOf(t))]
       IN \E g \in OnTestFinishedOp(h, t) : Commit(g, "on_test_finished", t)
    /\ UNCHANGED <<others, mode, client, project_id, envBatchSize, clientUploads, backup, pc, run_id, session, flushes>>

FlushResults ==
    /\ pc = "session"
    /\ flushes < MaxFlushes
    /\ flushes' = flushes + 1
    /\ \E g \in FlushResultsOp(Heap) : Commit(g, "flush_results", NoId)
    /\ UNCHANGED <<others, mode, client, project_id, envBatchSize, clientUploads, backup, pc, run_id, session>>

FinishRun ==
    /\ pc = "session"
    /\ InProgress = {}
    /\ pc' = "finished"
    /\ \E g \in FinishRunOp(Heap) : Commit(g, "finish_run", NoId)
    /\ UNCHANGED <<others, mode, client, project_id, envBatchSize, clientUploads, backup, run_id, session, flushes>>

\* The final local backup, written when the run has been finished.
BackupResults ==
    /\ pc = "finished"
    /\ pc' = "backed_up"
    /\ LET r == BackupResultsOp(Heap)
       IN /\ backup' = r.file
          /\ Commit(r.heap, "backup_results", NoId)
    /\ UNCHANGED <<others, mode, client, project_id, envBatchSize, clientUploads, run_id, session, flushes>>

Next ==
    \/ StartRun
    \/ StartSession
    \/ \E t \in Tests : OnTestStarted(t)
    \/ Attach
    \/ \E t \in Tests : OnTestFinished(t)
    \/ FlushResults
    \/ FinishRun
    \/ BackupResults

Spec == Init /\ [][Next]_vars

\* ------------------------------------------- sessions of one test, uploads
\* A session with one test and a client whose upload methods can give every
\* answer, where attach is also given paths that lie in the cache directory.
UploadInit ==
    /\ mode \in Modes
    /\ client = TRUE
    /\ project_id \in BOOLEAN
    /\ envBatchSize = [set |-> FALSE, digits |-> 0]
    /\ clientUploads = UploadOutcomes
    /\ Fresh

AttachCachedPath ==
    /\ pc = "session"
    /\ current_test \in InProgress
    /\ Attached < MaxAttachments
    /\ \E cacheDisabled \in BOOLEAN :
          Commit(AttachOp(Heap, "cached_path", cacheDisabled, TRUE), "attach", current_test)
    /\ UNCHANGED <<others, mode, client, project_id, envBatchSize, clientUploads, backup, pc, run_id, session, flushes>>

UploadNext ==
    \/ StartRun
    \/ StartSession
    \/ OnTestStarted(1)
    \/ Attach
    \/ AttachCachedPath
    \/ OnTestFinished(1)
    \/ FlushResults
    \/ FinishRun

UploadSpec == UploadInit /\ [][UploadNext]_vars

\* ------------------------------------------------ ContextService on its own
\* The context service driven directly: sessions started and ended, tests
\* started and finished in any order, with and without a session.
ContextInit ==
    /\ mode = "lazy"
    /\ client = FALSE
    /\ project_id = FALSE
    /\ envBatchSize = [set |-> FALSE, digits |-> 0]
    /\ clientUploads = {}
    /\ Fresh

CtxUnchanged ==
    UNCHANGED <<others, mode, client, project_id, envBatchSize, clientUploads, backup,
                pc, run_id, flushes>>

\* start_session: a new SessionContext with an empty result map
CtxStartSession ==
    /\ session' = [active |-> TRUE, run_id |-> NoId]
    /\ Commit([Heap EXCEPT !.tr = <<>>], "start_session", NoId)
    /\ CtxUnchanged

\* end_session: the SessionContext, and its result map, are dropped
CtxEndSession ==
    /\ session.active
    /\ session' = [active |-> FALSE, run_id |-> NoId]
    /\ Commit([Heap EXCEPT !.tr = <<>>], "end_session", NoId)
    /\ CtxUnchanged

CtxStartTest(t) ==
    /\ Commit(StartTest([Heap EXCEPT !.res[t].phase = "started"], t), "start_test", t)
    /\ UNCHANGED session
    /\ CtxUnchanged

CtxFinishTest(t) ==
    /\ Commit(FinishTest([Heap EXCEPT !.res[t].phase = "finished",
                                        !.res[t].status = OutcomeOf(t)], t),
              "finish_test", t)
    /\ UNCHANGED session
    /\ CtxUnchanged

ContextNext ==
    \/ CtxStartSession
    \/ CtxEndSession
    \/ \E t \in Tests : CtxStartTest(t)
    \/ \E t \in Tests : CtxFinishTest(t)

ContextSpec == ContextInit /\ [][ContextNext]_vars

\* ------------------------------------------------------ tags of one test
\* One test: started, tagged with add_tag and add_tags (also when there is
\* no current test, which is a no-op), and finished.
TagLists == UNION {[1..n -> TagNames] : n \in 1..MaxTagList}

TagInit == ContextInit

AddTagFrom(names) ==
    /\ \E tag \in names : Commit(AddTagOp(Heap, tag), "add_tag", current_test)
    /\ UNCHANGED session
    /\ CtxUnchanged

AddTagsFrom(lists) ==
    /\ \E tags \in lists : Commit(AddTagsOp(Heap, tags), "add_tags", current_test)
    /\ UNCHANGED session
    /\ CtxUnchanged

AddTag == AddTagFrom(TagNames)

AddTags == AddTagsFrom(TagLists)

TagNext ==
    \/ CtxStartSession
    \/ CtxStartTest(1)
    \/ AddTag
    \/ AddTags
    \/ CtxFinishTest(1)

TagSpec == TagInit /\ [][TagNext]_vars

\* ------------------------------------- metadata and attachments of one test
\* One test: started, given metadata and attachments through the context
\* service (also when there is no current test), and finished.  attach reads
\* PROOFY_MODE and PROOFY_DISABLE_ATTACHMENT_CACHE at each call.
AttachKinds == {"path", "cached_path", "bytes", "stream"}

MetadataInit == ContextInit

SetName ==
    /\ Commit(SetNameOp(Heap, "renamed"), "set_name", current_test)
    /\ UNCHANGED session
    /\ CtxUnchanged

AddAttributes ==
    /\ Commit(AddAttributesOp(Heap, {<<"owner", "qa">>}), "add_attributes", current_test)
    /\ UNCHANGED session
    /\ CtxUnchanged

SetDescription ==
    /\ Commit(SetDescriptionOp(Heap, "text"), "set_description", current_test)
    /\ UNCHANGED session
    /\ CtxUnchanged

SetSeverity ==
    /\ Commit(SetSeverityOp(Heap, "critical"), "set_severity", current_test)
    /\ UNCHANGED session
    /\ CtxUnchanged

\* The copy to the cache is attempted for a path outside the cache directory
\* when caching applies.
CopyAttempted(kind, envMode, cacheDisabled) ==
    kind = "path" /\ ShouldCacheForMode(envMode, cacheDisabled)

CtxAttach ==
    /\ current_test # NoId => Attached < MaxAttachments
    /\ \E kind \in AttachKinds, envMode \in Modes,
          cacheDisabled \in BOOLEAN, copyOk \in BOOLEAN :
          /\ ~CopyAttempted(kind, envMode, cacheDisabled) => copyOk
          /\ Commit(AttachEnvOp(Heap, kind, envMode, cacheDisabled, copyOk),
                    "attach", current_test)
    /\ UNCHANGED session
    /\ CtxUnchanged

MetadataNext ==
    \/ CtxStartSession
    \/ CtxStartTest(1)
    \/ SetName
    \/ AddAttributes
    \/ SetDescription
    \/ SetSeverity
    \/ AddTagFrom({"smoke"})
    \/ AddTagsFrom({<<"smoke", "slow">>})
    \/ CtxAttach
    \/ CtxFinishTest(1)

MetadataSpec == MetadataInit /\ [][MetadataNext]_vars

\* ------------------------------------------------- two threads on _LOCAL
\* Two threads calling the setters and getters of runtime/context.py in any
\* interleaving.  _LOCAL is a threading.local: an attribute read or written
\* by a thread lives in that thread's own namespace.  Each thread sets
\* context objects of its own; th * 10 is the TestContext created for
\* thread th by get_current_test_context.
Slot_Shared(th) == 1

Slot(th) == th

TestContextsOf(th) == {th * 10 + k : k \in 1..MaxContexts}
SessionContextsOf(th) == {th * 10 + k : k \in 1..MaxContexts}

ThreadInit == ContextInit

\* set_current_test_context(ctx); ctx = None deletes the attribute
SetCurrentTestContext(th) ==
    /\ threadPc[th] = "idle"
    /\ \E ctx \in {NoId} \cup TestContextsOf(th) :
          /\ Local' = [Local EXCEPT ![Slot(th)].test_ctx = ctx]
          /\ lastSet' = [lastSet EXCEPT ![th].test_ctx = ctx]
    /\ returned' = [returned EXCEPT ![th] = NothingReturned]
    /\ UNCHANGED <<threadPc, sessionVars, limits, mergeVars, lateVars>>

\* get_current_test_context, up to the test `ctx is None`: the attribute is
\* returned when set, and a TestContext is created next otherwise.
GetCurrentTestContext(th) ==
    /\ threadPc[th] = "idle"
    /\ LET ctx == Local[Slot(th)].test_ctx
       IN IF ctx # NoId
          THEN /\ returned' = [returned EXCEPT ![th] = [what |-> "test", value |-> ctx]]
               /\ UNCHANGED threadPc
          ELSE /\ threadPc' = [threadPc EXCEPT ![th] = "creating"]
               /\ UNCHANGED returned
    /\ UNCHANGED <<Local, lastSet, sessionVars, limits, mergeVars, lateVars>>

\* get_current_test_context, the rest: ctx = TestContext(); _LOCAL.test_ctx = ctx
CreateTestContext(th) ==
    /\ threadPc[th] = "creating"
    /\ Local' = [Local EXCEPT ![Slot(th)].test_ctx = th * 10]
    /\ lastSet' = [lastSet EXCEPT ![th].test_ctx = th * 10]
    /\ returned' = [returned EXCEPT ![th] = [what |-> "test", value |-> th * 10]]
    /\ threadPc' = [threadPc EXCEPT ![th] = "idle"]
    /\ UNCHANGED <<sessionVars, limits, mergeVars, lateVars>>

\* set_current_session_context(ctx); ctx = None deletes the attribute
SetCurrentSessionContext(th) ==
    /\ threadPc[th] = "idle"
    /\ \E ctx \in {NoId} \cup SessionContextsOf(th) :
          /\ Local' = [Local EXCEPT ![Slot(th)].session_ctx = ctx]
          /\ lastSet' = [lastSet EXCEPT ![th].session_ctx = ctx]
    /\ returned' = [returned EXCEPT ![th] = NothingReturned]
    /\ UNCHANGED <<threadPc, sessionVars, limits, mergeVars, lateVars>>

\* get_current_session_context: the attribute, or None
GetCurrentSessionContext(th) ==
    /\ threadPc[th] = "idle"
    /\ returned' = [returned EXCEPT ![th] =
                       [what |-> "session", value |-> Local[Slot(th)].session_ctx]]
    /\ UNCHANGED <<Local, threadPc, lastSet, sessionVars, limits, mergeVars, lateVars>>

ThreadNext ==
    \E th \in Threads :
        \/ SetCurrentTestContext(th)
        \/ GetCurrentTestContext(th)
        \/ CreateTestContext(th)
        \/ SetCurrentSessionContext(th)
        \/ GetCurrentSessionContext(th)

ThreadSpec == ThreadInit /\ [][ThreadNext]_vars

\* --------------------------------------- backup files of a distributed run
\* A run spread over worker processes: each worker runs tests and, at its
\* session end, may write its results to its own file; the coordinating
\* process ends its session once every worker has exited, writes results.json
\* and merges the worker files into it.  A result item is <<process, number>>;
\* process 0 is the coordinating one.
Orders(S) ==
    {o \in [1..Cardinality(S) -> S] : \A i, j \in DOMAIN o : o[i] = o[j] => i = j}

RECURSIVE Extend(_, _, _)
Extend(files, order, i) ==
    IF i > Len(order) THEN <<>>
    ELSE (IF files[order[i]].readable THEN files[order[i]].items ELSE <<>>)
             \o Extend(files, order, i + 1)

\* Mutant of MergeWorkerResults: only the first worker file is read.
MergeWorkerResults_FirstFileOnly(main, files, order) ==
    LET all_results == IF order = <<>> THEN <<>> ELSE files[order[1]].items
    IN IF all_results # <<>>
       THEN [main |-> [exists |-> TRUE, items |-> all_results, readable |-> TRUE],
             files |-> [w \in DOMAIN files |-> NoFile]]
       ELSE [main |-> main, files |-> files]

\* _merge_worker_results, with the worker files listed in the given order:
\* results.json and the worker files it leaves.  A file that fails to load
\* adds nothing; when anything was collected every listed file is unlinked.
MergeWorkerResults(main, files, order) ==
    LET all_results == Extend(files, order, 1)
    IN IF all_results # <<>>
       THEN [main |-> [exists |-> TRUE, items |-> all_results, readable |-> TRUE],
             files |-> [w \in DOMAIN files |-> NoFile]]
       ELSE [main |-> main, files |-> files]

MergeInit == ContextInit

WorkerRunTest(w) ==
    /\ workers[w].pc = "running"
    /\ Len(workers[w].results) < MaxWorkerResults
    /\ workers' = [workers EXCEPT ![w].results = Append(@, <<w, Len(@) + 1>>)]
    /\ UNCHANGED <<workerFiles, resultsFile, masterPc, sessionVars, limits, threadVars, lateVars>>

\* A worker's session end: _backup_results_locally when a backup is
\* configured, to results_<worker>.json.  The file is opened for writing and
\* json.dump fills it; a failure of the dump is caught and printed, and leaves
\* a file that does not parse and so holds no item a reader can get.
WorkerSessionFinish(w) ==
    /\ workers[w].pc = "running"
    /\ \E written \in {"none", "complete", "truncated"} :
          workerFiles' =
              IF written = "complete"
              THEN [workerFiles EXCEPT ![w] =
                       [exists |-> TRUE, items |-> workers[w].results,
                        readable |-> TRUE]]
              ELSE IF written = "truncated"
              THEN [workerFiles EXCEPT ![w] =
                       [exists |-> TRUE, items |-> <<>>, readable |-> FALSE]]
              ELSE workerFiles
    /\ workers' = [workers EXCEPT ![w].pc = "exited"]
    /\ UNCHANGED <<resultsFile, masterPc, sessionVars, limits, threadVars, lateVars>>

\* The coordinating process's session end, after every worker has exited:
\* _backup_results_locally writes its own results to results.json and then
\* merges the worker files, which glob lists in some order.
MasterSessionFinish ==
    /\ masterPc = "running"
    /\ \A w \in Workers : workers[w].pc = "exited"
    /\ \E own \in {<<>>, <<<<0, 1>>>>},
          order \in Orders({w \in Workers : workerFiles[w].exists}) :
          LET written == [exists |-> TRUE, items |-> own, readable |-> TRUE]
              merged == MergeWorkerResults(written, workerFiles, order)
          IN /\ resultsFile' = merged.main
             /\ workerFiles' = merged.files
    /\ masterPc' = "finished"
    /\ UNCHANGED <<workers, sessionVars, limits, threadVars, lateVars>>

MergeNext ==
    \/ \E w \in Workers : WorkerRunTest(w)
    \/ \E w \in Workers : WorkerSessionFinish(w)
    \/ MasterSessionFinish

MergeSpec == MergeInit /\ [][MergeNext]_vars

\* ------------------------------------------- calls of the clamp utilities
\* One call of one clamp utility, on inputs around its limits: the utilities
\* keep no state, so a behaviour is one call.
Strings(alphabet, n) == UNION {[1..k -> alphabet] : k \in 0..n}
Injective(pairs) ==
    \A i, j \in 1..Len(pairs) : pairs[i][1] = pairs[j][1] => i = j
Dicts(keys, values, n) ==
    {d \in UNION {[1..k -> keys \X values] : k \in 0..n} : Injective(d)}

ClampInputs == {None} \cup {Str(s) : s \in Strings({"a", "b"}, MaxLimit + 1)}

\* Keys at, under and over the key limit; 1 and "1" are one key once str()
\* is applied.
LongKey == Rep("k", ATTRIBUTE_KEY_LIMIT)
AttributeKeys ==
    {Str(<<>>), Str(<<"a">>), Str(<<"1">>), Num(<<"1">>),
     Str(Rep("k", ATTRIBUTE_KEY_LIMIT - 1) \o <<"z">>),
     Str(LongKey), Str(LongKey \o <<"x">>), Str(LongKey \o <<"y">>)}
AttributeValues ==
    {Str(<<"1">>), Str(<<"2">>), Num(<<"7">>),
     Str(Rep("v", ATTRIBUTE_VALUE_LIMIT)),
     Str(Rep("v", ATTRIBUTE_VALUE_LIMIT) \o <<"w">>)}

ListItems == {Str(<<"a">>), Str(<<"b", "b">>), Str(<<"c", "c", "c">>),
              Str(Rep("d", 6))}
DictKeys == {<<"a">>, <<"b">>, <<"c">>}
DictValues == {Str(<<"x">>), Num(<<"1">>), Obj(<<"X">>)}

LimitsInit == ContextInit

ClampString ==
    /\ limits = NoCall
    /\ \E value \in ClampInputs, limit \in 0..MaxLimit :
          limits' = [fn |-> "clamp_string", input |-> value, limit |-> limit,
                     out |-> Returned(clamp_string(value, limit))]
    /\ UNCHANGED <<sessionVars, threadVars, mergeVars, lateVars>>

ClampAttributes ==
    /\ limits = NoCall
    /\ \E attributes \in Dicts(AttributeKeys, AttributeValues, MaxAttributes) :
          limits' = [fn |-> "clamp_attributes", input |-> attributes, limit |-> 0,
                     out |-> Returned(clamp_attributes(attributes))]
    /\ UNCHANGED <<sessionVars, threadVars, mergeVars, lateVars>>

LimitListStrings ==
    /\ limits = NoCall
    /\ \E values \in Strings(ListItems, MaxItems), limit \in 0..MaxBudget :
          limits' = [fn |-> "limit_list_strings", input |-> values, limit |-> limit,
                     out |-> Returned(limit_list_strings(values, limit))]
    /\ UNCHANGED <<sessionVars, threadVars, mergeVars, lateVars>>

LimitDictStrings ==
    /\ limits = NoCall
    /\ \E values \in Dicts(DictKeys, DictValues, MaxItems), limit \in 0..MaxBudget :
          limits' = [fn |-> "limit_dict_strings", input |-> values, limit |-> limit,
                     out |-> limit_dict_strings(values, limit)]
    /\ UNCHANGED <<sessionVars, threadVars, mergeVars, lateVars>>

LimitsNext ==
    \/ ClampString
    \/ ClampAttributes
    \/ LimitListStrings
    \/ LimitDictStrings

LimitsSpec == LimitsInit /\ [][LimitsNext]_vars

\* --------------------------------------------- the client's update_result
\* The body update_result builds, field by field, or the ValueError it
\* raises before any request; a body that passes is sent in one PATCH
\* request, which returns or raises.  An argument is given or left at its
\* default None; presence is tested with "is not None" except for
\* attributes, tested for truth.
Given(x) == [given |-> TRUE, v |-> x]
Absent(default) == [given |-> FALSE, v |-> default]

UpdateBody(status, ended_at, duration_ms, message, attributes) ==
    LET b1 == IF status.given THEN <<<<"status", status.v>>>> ELSE <<>>
        b2 == IF ended_at.given THEN Put(b1, "ended_at", ended_at.v) ELSE b1
        b3 == IF duration_ms.given THEN Put(b2, "duration_ms", duration_ms.v) ELSE b2
        b4 == IF message.given THEN Put(b3, "message", message.v) ELSE b3
    IN IF attributes.given /\ attributes.v # <<>>
       THEN Put(b4, "attributes", attributes.v) ELSE b4

\* Mutant of UpdateResultOp: a status without ended_at is let through.
UpdateResultOp_StatusAlone(status, ended_at, duration_ms, message, attributes, out) ==
    LET body == UpdateBody(status, ended_at, duration_ms, message, attributes)
    IN IF duration_ms.given /\ duration_ms.v < 0
       THEN [exc |-> "ValueError", requests |-> <<>>]
       ELSE IF body = <<>>
       THEN [exc |-> "ValueError", requests |-> <<>>]
       ELSE [exc |-> IF out = "ok" THEN "none" ELSE "HTTPError",
             requests |-> <<[method |-> "PATCH", body |-> body]>>]

UpdateResultOp(status, ended_at, duration_ms, message, attributes, out) ==
    LET body == UpdateBody(status, ended_at, duration_ms, message, attributes)
    IN IF duration_ms.given /\ duration_ms.v < 0
       THEN [exc |-> "ValueError", requests |-> <<>>]
       ELSE IF body = <<>>
       THEN [exc |-> "ValueError", requests |-> <<>>]
       ELSE IF HasKey(body, "status") /\ ~HasKey(body, "ended_at")
       THEN [exc |-> "ValueError", requests |-> <<>>]
       ELSE [exc |-> IF out = "ok" THEN "none" ELSE "HTTPError",
             requests |-> <<[method |-> "PATCH", body |-> body]>>]

\* One call of update_result on one client: the client keeps no state
\* between calls, so a behaviour is one call.
StatusArgs == {Absent(0), Given(0), Given(1)}
EndedAtArgs == {Absent(<<>>), Given(<<>>), Given(<<"t">>)}
DurationArgs == {Absent(0)} \cup {Given(n) : n \in (0 - 1)..MaxDuration}
MessageArgs == {Absent(<<>>), Given(<<>>)}
AttributesArgs == {Absent(<<>>), Given(<<>>), Given(<<<<"k", "v">>>>)}

ClientInit == ContextInit

UpdateResult ==
    /\ ~lastUpdate.called
    /\ \E status \in StatusArgs, ended_at \in EndedAtArgs,
          duration_ms \in DurationArgs, message \in MessageArgs,
          attributes \in AttributesArgs, out \in {"ok", "error"} :
          LET r == UpdateResultOp(status, ended_at, duration_ms, message,
                                  attributes, out)
          IN /\ r.requests = <<>> => out = "ok"
             /\ lastUpdate' =
                   [called |-> TRUE,
                    args |-> [status |-> status, ended_at |-> ended_at,
                              duration_ms |-> duration_ms, message |-> message,
                              attributes |-> attributes],
                    exc |-> r.exc, requests |-> r.requests]
    /\ UNCHANGED <<sessionVars, limits, threadVars, mergeVars, xdistVars, handlerVars>>

ClientNext == UpdateResult

ClientSpec == ClientInit /\ [][ClientNext]_vars

\* ------------------------------------- several handlers in one process
\* ResultsHandler instances built in one process and one thread, lazy and
\* without a client: each takes its context from get_context_service(),
\* sessions are started and ended and results finished through either.
\* get_context_service: the module-level service, created by the first call.
GetContextService(service) == IF service = NoId THEN 1 ELSE service

\* What a handler finds through self.context.get_results(): the session of
\* the one module-level backend its service stands on.
ResultsOf(hd) == IF handlers[hd] = NoId THEN {} ELSE Range(GetResults(Heap))

HandlerInit == ContextInit

HandlerUnchanged ==
    UNCHANGED <<limits, threadVars, mergeVars, clientVars, xdistVars,
                mode, client, project_id, envBatchSize, clientUploads, backup,
                pc, run_id, flushes>>

\* ResultsHandler.__init__
NewHandler(hd) ==
    /\ handlers[hd] = NoId
    /\ handlers' = [handlers EXCEPT ![hd] = GetContextService(global_service)]
    /\ global_service' = GetContextService(global_service)
    /\ UNCHANGED <<sessionVars, finishedBy>>
    /\ UNCHANGED <<limits, threadVars, mergeVars, clientVars, xdistVars>>

\* ResultsHandler.start_session: a new SessionContext with an empty result
\* map; finishedBy restarts with it.
HandlerStartSession(hd) ==
    /\ handlers[hd] # NoId
    /\ session' = [active |-> TRUE, run_id |-> NoId]
    /\ finishedBy' = [t \in Tests |-> NoId]
    /\ Commit([Heap EXCEPT !.tr = <<>>], "start_session", NoId)
    /\ UNCHANGED <<handlers, global_service>>
    /\ HandlerUnchanged

\* ResultsHandler.end_session
HandlerEndSession(hd) ==
    /\ handlers[hd] # NoId
    /\ session.active
    /\ session' = [active |-> FALSE, run_id |-> NoId]
    /\ finishedBy' = [t \in Tests |-> NoId]
    /\ Commit([Heap EXCEPT !.tr = <<>>], "end_session", NoId)
    /\ UNCHANGED <<handlers, global_service>>
    /\ HandlerUnchanged

\* ResultsHandler.on_test_started
HandlerOnTestStarted(hd, t) ==
    /\ handlers[hd] # NoId
    /\ results[t].phase = "new"
    /\ \E g \in OnTestStartedOp([Heap EXCEPT !.res[t].phase = "started"], t) :
          Commit(g, "on_test_started", t)
    /\ UNCHANGED <<handlers, global_service, session, finishedBy>>
    /\ HandlerUnchanged

\* ResultsHandler.on_test_finished on a result that was not finished before
HandlerOnTestFinished(hd, t) ==
    /\ handlers[hd] # NoId
    /\ results[t].phase \in {"new", "started"}
    /\ LET h == [Heap EXCEPT !.res[t].phase = "finished",
                              !.res[t].status = OutcomeOf(t),
                              !.res[t].traceback = HasTraceback(OutcomeOf(t))]
       IN \E g \in OnTestFinishedOp(h, t) : Commit(g, "on_test_finished", t)
    /\ finishedBy' = [finishedBy EXCEPT ![t] = hd]
    /\ UNCHANGED <<handlers, global_service, session>>
    /\ HandlerUnchanged

HandlerNext ==
    \/ \E hd \in Handlers : NewHandler(hd)
    \/ \E hd \in Handlers : HandlerStartSession(hd)
    \/ \E hd \in Handlers : HandlerEndSession(hd)
    \/ \E hd \in Handlers, t \in Tests : HandlerOnTestStarted(hd, t)
    \/ \E hd \in Handlers, t \in Tests : HandlerOnTestFinished(hd, t)

HandlerSpec == HandlerInit /\ [][HandlerNext]_vars

\* ------------------------------------------- sessions of a distributed run
\* The plugin in the coordinating process and in each worker process:
\* pytest_configure, the coordinating process's pytest_configure_node for a
\* worker, pytest_sessionstart and pytest_sessionfinish.  No test runs here
\* (MergeSpec has the results), so every results file holds an empty array.
\* str(uuid.uuid4()) in process p
Uuid(p) == <<"uuid", p>>

\* is_xdist_worker: the session's config has a workerinput, which is so in
\* every worker process and never in the coordinating one.
IsXdistWorker(p) == p # 0

\* Mutant of CreatesRunAtStart: workers take the run-creating branch too.
CreatesRunAtStart_AnyProcess(m, is_worker) == m \in {"live", "batch"}

\* pytest_sessionstart's condition for setting the run id
CreatesRunAtStart(m, is_worker) == m \in {"live", "batch"} /\ ~is_worker

\* Mutant of FinalizesAtFinish: every process finalizes.
FinalizesAtFinish_EveryProcess(is_worker) == TRUE

\* pytest_sessionfinish's condition for calling _finalize_run
FinalizesAtFinish(is_worker) == ~is_worker

\* setup_worker_plugin: None without the transferred config or when the
\* config cannot be rebuilt; otherwise a new plugin with the run id and the
\* session id of the worker input.
SetupWorkerPlugin(pl, input, ok) ==
    IF ~input.config \/ ~ok
    THEN [pl EXCEPT !.instance = FALSE]
    ELSE [pl EXCEPT !.instance = TRUE,
                    !.run_id = input.run_id,
                    !.session_id = input.session_id]

XdistInit ==
    /\ mode \in Modes
    /\ client \in BOOLEAN
    /\ project_id \in BOOLEAN
    /\ envBatchSize = [set |-> FALSE, digits |-> 0]
    /\ clientUploads = {}
    /\ Fresh

\* pytest_configure in process p: a new plugin with its own session id and
\* no run id; every process resolves the same options.  A worker process
\* exists once its node has been configured.
PytestConfigure(p) ==
    /\ plugins[p].pc = "new"
    /\ p # 0 => workerinput[p].handed /\ plugins[0].pc \in {"configured", "started"}
    /\ \E cfg \in {NoId, 2} :
          /\ p # 0 => cfg = plugins[0].config_run_id
          /\ plugins' = [plugins EXCEPT ![p] =
                            [pc |-> "configured", instance |-> TRUE, run_id |-> NoId,
                             session_id |-> Uuid(p), config_run_id |-> cfg]]
    /\ UNCHANGED <<workerinput, runCalls>>
    /\ UNCHANGED <<sessionVars, limits, threadVars, mergeVars, clientVars, handlerVars>>

\* ProofyXdistHooks.pytest_configure_node, in the coordinating process: the
\* config, the run id and the session id go into the worker's input; nothing
\* does when the hooks could not be registered.
ConfigureNode(w) ==
    /\ plugins[0].pc \in {"configured", "started"}
    /\ ~workerinput[w].handed
    /\ \E registered \in BOOLEAN :
          workerinput' = [workerinput EXCEPT ![w] =
              IF registered
              THEN [handed |-> TRUE, config |-> TRUE,
                    run_id |-> plugins[0].run_id,
                    session_id |-> plugins[0].session_id]
              ELSE [handed |-> TRUE, config |-> FALSE,
                    run_id |-> NoId, session_id |-> <<>>]]
    /\ UNCHANGED <<plugins, runCalls>>
    /\ UNCHANGED <<sessionVars, limits, threadVars, mergeVars, clientVars, handlerVars>>

\* pytest_sessionstart in process p: a worker replaces its plugin by
\* setup_worker_plugin's; then the run id is set from the config or by
\* _create_run (one create call when there are a client and a project id,
\* no run id when the call fails or answers without an id).
PytestSessionStart(p) ==
    /\ plugins[p].pc = "configured"
    /\ \E ok \in BOOLEAN, out \in CreateOutcomes :
          LET is_worker == IsXdistWorker(p)
              pl == IF is_worker
                    THEN SetupWorkerPlugin(plugins[p], workerinput[p], ok)
                    ELSE plugins[p]
              sets == pl.instance /\ CreatesRunAtStart(mode, is_worker)
              calls == sets /\ pl.config_run_id = NoId /\ client /\ project_id
              new_run == IF ~sets THEN pl.run_id
                         ELSE IF pl.config_run_id # NoId THEN pl.config_run_id
                         ELSE IF calls /\ out = "ok" THEN 1
                         ELSE NoId
          IN /\ (~is_worker \/ ~workerinput[p].config) => ok
             /\ ~calls => out = "ok"
             /\ plugins' = [plugins EXCEPT ![p] =
                               [pl EXCEPT !.pc = "started", !.run_id = new_run]]
             /\ runCalls' = IF calls
                            THEN [runCalls EXCEPT !.create = Append(@, p)]
                            ELSE runCalls
    /\ UNCHANGED workerinput
    /\ UNCHANGED <<sessionVars, limits, threadVars, mergeVars, clientVars, handlerVars>>

\* pytest_sessionfinish in process p, the coordinating process after every
\* worker has exited: nothing without a plugin; otherwise _finalize_run when
\* the condition holds (one update call when there are a client and a run
\* id), then the backup when always_backup is set or there is no client: a
\* worker writes its own file, the coordinating process results.json and the
\* merge.  A failed write leaves a file that does not parse.
PytestSessionFinish(p) ==
    /\ plugins[p].pc = "started"
    /\ p = 0 => \A w \in Workers :
                   IF workerinput[w].handed THEN plugins[w].pc = "finished"
                   ELSE plugins[w].pc = "new"
    /\ plugins' = [plugins EXCEPT ![p].pc = "finished"]
    /\ IF ~plugins[p].instance
       THEN UNCHANGED <<runCalls, workerFiles, resultsFile>>
       ELSE \E always_backup \in BOOLEAN, written \in {"complete", "truncated"},
               order \in Orders({w \in Workers : workerFiles[w].exists}) :
               LET is_worker == IsXdistWorker(p)
                   finalizes == FinalizesAtFinish(is_worker)
                   updates == finalizes /\ client /\ plugins[p].run_id # NoId
                   file == [exists |-> TRUE, items |-> <<>>,
                            readable |-> written = "complete"]
                   merged == MergeWorkerResults(file, workerFiles, order)
               IN /\ runCalls' =
                        [runCalls EXCEPT
                            !.finalize_invoked[p] = IF finalizes THEN @ + 1 ELSE @,
                            !.finalize = IF updates THEN Append(@, p) ELSE @]
                  /\ IF ~(always_backup \/ ~client)
                     THEN UNCHANGED <<workerFiles, resultsFile>>
                     ELSE IF is_worker
                     THEN /\ workerFiles' = [workerFiles EXCEPT ![p] = file]
                          /\ UNCHANGED resultsFile
                     ELSE IF written = "complete"
                     THEN /\ resultsFile' = merged.main
                          /\ workerFiles' = merged.files
                     ELSE /\ resultsFile' = file
                          /\ UNCHANGED workerFiles
    /\ UNCHANGED <<workerinput, workers, masterPc>>
    /\ UNCHANGED <<sessionVars, limits, threadVars, clientVars, handlerVars>>

XdistNext ==
    \/ \E p \in Processes : PytestConfigure(p)
    \/ \E w \in Workers : ConfigureNode(w)
    \/ \E p \in Processes : PytestSessionStart(p)
    \/ \E p \in Processes : PytestSessionFinish(p)

XdistSpec == XdistInit /\ [][XdistNext]_vars

\* ------------------------------------------------- vocabulary of the claims
CallsOf(calls, op) == SelectSeq(calls, LAMBDA c : c.op = op)
IdsOf(calls) == [k \in 1..Len(calls) |-> calls[k].id]
IsPrefix(a, b) == Len(a) <= Len(b) /\ \A k \in 1..Len(a) : a[k] = b[k]
HasCall(calls, op, id) == \E k \in 1..Len(calls) : calls[k].op = op /\ calls[k].id = id
HasLog(logs, msg) == \E k \in 1..Len(logs) : logs[k] = msg

\* C1: once a result holds a server-assigned result_id, no handler call
\* replaces it with another id (stated for sessions with a client and a
\* run id, where results are sent).
C1_ResultIdSetOnce ==
    [][\A t \in Tests :
          (client /\ run_id # NoId /\ results[t].result_id # NoId)
          => results'[t].result_id = results[t].result_id]_vars

\* C2: in live mode, when on_test_started obtained a result_id, the
\* on_test_finished that follows makes an update-result call and no
\* create-result call, so the result has exactly one create-result call.
C2_LiveFinishUpdates ==
    [][\A t \in Tests :
          (/\ mode = "live"
           /\ results[t].phase = "started"
           /\ results[t].result_id # NoId
           /\ lastOp'.op = "on_test_finished"
           /\ lastOp'.id = t)
          => /\ Len(lastCalls') >= 1
             /\ lastCalls'[1].op = "update_result"
             /\ lastCalls'[1].id = t
             /\ CallsOf(lastCalls', "create_result") = <<>>
             /\ totals'.create[t] = 1
             /\ totals'.update[t] = 1
             /\ results'[t].result_id = results[t].result_id]_vars

C2_Witness ==
    \E t \in Tests :
        /\ mode = "live"
        /\ lastOp = [op |-> "on_test_finished", id |-> t, exc |-> "none"]
        /\ results[t].reporting_status = "FINISHED"
        /\ totals.create[t] = 1
        /\ totals.update[t] = 1

\* C3: in batch mode with threshold N (100 by default, or the configured
\* value), an on_test_finished that leaves fewer than N results queued
\* sends nothing, and the one that queues the N-th result sends the whole
\* queue, one create-result call per queued result, and leaves the queue
\* empty.
ConfiguredThreshold ==
    IF envBatchSize.set THEN envBatchSize.digits ELSE DefaultBatchSize

C3_BatchThreshold ==
    [][\A t \in Tests :
          (/\ mode = "batch"
           /\ client
           /\ run_id # NoId
           /\ lastOp'.op = "on_test_finished"
           /\ lastOp'.id = t)
          => LET queue == Append(batch_results, t)
             IN IF Len(queue) < ConfiguredThreshold
                THEN lastCalls' = <<>> /\ batch_results' = queue
                ELSE /\ IdsOf(CallsOf(lastCalls', "create_result")) = queue
                     /\ batch_results' = <<>>]_vars

\* C4: in batch mode, after finish_run with a client and a run id the
\* queue is empty and every result that finished has had a create-result
\* call.
C4_FinishRunFlushesRemainder ==
    (mode = "batch" /\ client /\ run_id # NoId /\ pc = "finished")
    => /\ batch_results = <<>>
       /\ \A t \in Tests : results[t].phase = "finished" => totals.create[t] >= 1

C4_Witness ==
    /\ mode = "batch" /\ client /\ run_id # NoId /\ pc = "finished"
    /\ lastOp.op = "finish_run"
    /\ Len(CallsOf(lastCalls, "create_result")) >= 2
    /\ batch_results = <<>>

\* C5: in lazy mode on_test_started and on_test_finished make no remote
\* call, no remote call at all is made before the first flush_results or
\* finish_run, and on_test_finished leaves the result in the session's
\* result map without raising.
C5_LazyDefersAllCalls ==
    mode = "lazy"
    => /\ lastOp.op \in {"on_test_started", "on_test_finished"} => lastCalls = <<>>
       /\ (flushes = 0 /\ pc \notin {"finished", "backed_up"})
          => \A t \in Tests :
                /\ totals.create[t] = 0
                /\ totals.update[t] = 0
                /\ results[t].reporting_status = "UNSENT"
                /\ \A i \in 1..Len(results[t].attachments) :
                      results[t].attachments[i].uploads = 0
       /\ lastOp.op = "on_test_finished"
          => /\ lastOp.exc = "none"
             /\ \E k \in 1..Len(test_results) : test_results[k] = lastOp.id

C5_Witness ==
    /\ mode = "lazy" /\ client /\ run_id # NoId
    /\ lastOp.op = "on_test_finished"
    /\ Len(results[lastOp.id].attachments) >= 1
    /\ lastCalls = <<>>

\* C6: in a lazy or batch flush (flush_results, or the flush of finish_run),
\* a failed create-result call is logged and marks that result FAILED while
\* the results created in the same flush are FINISHED; the create-result
\* calls follow the buffer in order, and the flush stops short of the
\* buffer or raises only after a failed upload, never after a failed create.
C6_FlushContinuesPastCreateFailure ==
    [][(/\ mode \in {"lazy", "batch"} /\ client
        /\ \/ lastOp'.op = "flush_results"
           \/ lastOp'.op = "finish_run" /\ run_id # NoId)
       => LET buffer == IF mode = "lazy" THEN test_results ELSE batch_results
              creates == CallsOf(lastCalls', "create_result")
              failures == SelectSeq(creates, LAMBDA c : c.out = "error")
              caught == SelectSeq(lastLogs', LAMBDA m :
                                     m \in {"lazy_send_failed", "batch_send_failed"})
              raised == IF lastOp'.op = "flush_results"
                        THEN lastOp'.exc # "none"
                        ELSE HasLog(lastLogs', "flush_failed")
          IN /\ IsPrefix(IdsOf(creates), buffer)
             /\ \A k \in 1..Len(creates) :
                   results'[creates[k].id].reporting_status =
                       IF creates[k].out = "error" THEN "FAILED" ELSE "FINISHED"
             /\ Len(caught) = Len(failures)
             /\ (Len(creates) < Len(buffer) \/ raised)
                => /\ mode = "lazy"
                   /\ HasLog(lastLogs', "lazy_upload_failed")
                   /\ Len(creates) >= 1
                   /\ creates[Len(creates)].out = "ok"]_vars

C6_Witness ==
    /\ mode \in {"lazy", "batch"} /\ client
    /\ lastOp = [op |-> "flush_results", id |-> NoId, exc |-> "none"]
    /\ Len(lastCalls) >= 2
    /\ lastCalls[1].op = "create_result" /\ lastCalls[1].out = "error"
    /\ results[lastCalls[1].id].reporting_status = "FAILED"
    /\ lastCalls[2].op = "create_result" /\ lastCalls[2].out = "ok"
    /\ results[lastCalls[2].id].reporting_status = "FINISHED"

\* C7: in a lazy flush (with a client and a run id, after the tests have
\* finished), a failed attachment upload does not stop the flush: every
\* recorded result gets its create-result call.
C7_LazyFlushContinuesPastUploadFailure ==
    (/\ mode = "lazy" /\ client /\ run_id # NoId
     /\ lastOp.op = "flush_results" /\ InProgress = {})
    => IdsOf(CallsOf(lastCalls, "create_result")) = test_results

\* C8: finish_run with a client and a run id flushes first and then makes
\* the one update-run call, which is its last remote call, also when the
\* flush raised.
C8_FinishRunFlushThenUpdate ==
    (lastOp.op = "finish_run" /\ client /\ run_id # NoId)
    => /\ Len(CallsOf(lastCalls, "update_run")) = 1
       /\ lastCalls[Len(lastCalls)].op = "update_run"
       /\ (mode = "lazy" /\ test_results # <<>>)
          => lastCalls[1].op = "create_result" /\ lastCalls[1].id = test_results[1]
       /\ mode = "batch" => batch_results = <<>>
       /\ lastOp.exc = "none" <=> server.run = "FINISHED"

C8_Witness ==
    /\ lastOp.op = "finish_run" /\ client /\ run_id # NoId
    /\ HasLog(lastLogs, "flush_failed")
    /\ Len(lastCalls) >= 3
    /\ lastCalls[Len(lastCalls)] = [op |-> "update_run", id |-> 0, att |-> 0, out |-> "ok"]

\* C9: in live mode a create-result call that fails during on_test_started
\* is logged and not raised, and the result is the current test and is in
\* the session's result map.
C9_LiveStartFailureNotRaised ==
    (/\ mode = "live"
     /\ lastOp.op = "on_test_started"
     /\ \E k \in 1..Len(lastCalls) :
           lastCalls[k].op = "create_result" /\ lastCalls[k].out = "error")
    => /\ lastOp.exc = "none"
       /\ HasLog(lastLogs, "start_failed")
       /\ current_test = lastOp.id
       /\ \E k \in 1..Len(test_results) : test_results[k] = lastOp.id

C9_Witness ==
    /\ mode = "live"
    /\ lastOp.op = "on_test_started" /\ lastOp.exc = "none"
    /\ lastCalls = <<[op |-> "create_result", id |-> lastOp.id, att |-> 0, out |-> "error"]>>
    /\ results[lastOp.id].reporting_status = "FAILED"
    /\ current_test = lastOp.id

\* C10: in live mode (with a client and a run id), after on_test_finished
\* returns or raises the current-test pointer is cleared.
C10_LiveFinishClearsCurrentTest ==
    (mode = "live" /\ client /\ run_id # NoId /\ lastOp.op = "on_test_finished")
    => current_test = NoId

\* C11: in live mode, when the create-result or the update-result call of
\* on_test_finished fails, the result's reporting_status is FAILED afterwards
\* and on_test_finished raises a RuntimeError.
C11_LiveFinishFailureRaised ==
    (/\ mode = "live"
     /\ lastOp.op = "on_test_finished"
     /\ \E k \in 1..Len(lastCalls) :
           /\ lastCalls[k].op \in {"create_result", "update_result"}
           /\ lastCalls[k].out = "error")
    => /\ results[lastOp.id].reporting_status = "FAILED"
       /\ lastOp.exc = "RuntimeError"

\* Both cases in one state: the first test's create failed at start and
\* again at finish, the second test's update has just failed.
C11_Witness ==
    /\ mode = "live"
    /\ lastOp = [op |-> "on_test_finished", id |-> 2, exc |-> "RuntimeError"]
    /\ lastCalls = <<[op |-> "update_result", id |-> 2, att |-> 0, out |-> "error"]>>
    /\ results[2].reporting_status = "FAILED"
    /\ results[1].reporting_status = "FAILED"
    /\ totals.create[1] = 2
    /\ totals.update[1] = 0

\* C12: when the run has been finished (with a client and a run id), in
\* every delivery mode: if no remote call after start_run failed, every
\* finished test's reporting_status is FINISHED; if every remote call after
\* start_run failed, it is FAILED.
C12_FinalReportingStatus ==
    (pc \in {"finished", "backed_up"} /\ client /\ run_id # NoId)
    => \A t \in Tests :
          results[t].phase = "finished"
          => /\ ~clientAnswers.error => results[t].reporting_status = "FINISHED"
             /\ ~clientAnswers.ok => results[t].reporting_status = "FAILED"

C12_Witness ==
    /\ pc = "finished" /\ client /\ run_id # NoId
    /\ clientAnswers = [ok |-> FALSE, error |-> TRUE]
    /\ \A t \in 1..2 : /\ results[t].phase = "finished"
                        /\ results[t].reporting_status = "FAILED"

\* The other half of C12's case: a run whose every call succeeded.
WorkingClientRun ==
    /\ pc = "finished" /\ client /\ run_id # NoId
    /\ clientAnswers = [ok |-> TRUE, error |-> FALSE]
    /\ \A t \in 1..2 : /\ results[t].phase = "finished"
                        /\ results[t].reporting_status = "FINISHED"
                        /\ Len(results[t].attachments) + t >= 2

\* C13: no handler call changes a test's outcome: a result's status is
\* what the adapter reported when the test ended (and IN_PROGRESS before),
\* whatever the handler calls did and however they ended.
C13_OutcomeUntouched ==
    \A t \in Tests :
        results[t].status =
            IF results[t].phase = "finished" THEN OutcomeOf(t) ELSE "IN_PROGRESS"

C13_Witness ==
    /\ lastOp.op \in {"on_test_finished", "flush_results", "finish_run"}
    /\ lastOp.exc # "none"
    /\ results[2].status = "PASSED"
    /\ results[2].reporting_status = "FAILED"
    /\ results[1].status = "FAILED"
    /\ results[1].reporting_status = "FINISHED"

\* C14: after backup_results the backup document exists, holds one item for
\* every result of the session's result map, and its count is that number.
C14_BackupHoldsEveryResult ==
    (lastOp.op = "backup_results" /\ client /\ run_id # NoId /\ test_results # <<>>)
    => /\ backup.written
       /\ backup.items = GetResults(Heap)
       /\ backup.count = Len(GetResults(Heap))

\* The upload calls of a handler call, and those for one attachment.
IsUpload(c) == c.op \in {"upload_artifact", "upload_artifact_file"}
UploadsOf(calls, t, i) ==
    SelectSeq(calls, LAMBDA c : IsUpload(c) /\ c.id = t /\ c.att = i)

\* C15: an attachment whose remote_id is set gets no further upload call,
\* in every mode and on every later flush.
C15_NoSecondUpload ==
    [][\A t \in Tests : \A i \in 1..Len(results[t].attachments) :
          results[t].attachments[i].remote_id # NoId
          => /\ UploadsOf(lastCalls', t, i) = <<>>
             /\ results'[t].attachments[i] = results[t].attachments[i]]_vars

C15_Witness ==
    /\ lastOp.op \in {"flush_results", "finish_run"}
    /\ Len(results[1].attachments) >= 1
    /\ results[1].attachments[1].remote_id # NoId
    /\ results[1].attachments[1].uploads = 1
    /\ totals.create[1] >= 2
    /\ HasCall(lastCalls, "create_result", 1)
    /\ UploadsOf(lastCalls, 1, 1) = <<>>

\* C16: an upload for a result without run_id or result_id makes no upload
\* call and fails: the failure is printed and raised to the loop that asked
\* for the upload, which re-raises it (lazy) or logs it (batch).
C16_UploadNeedsIds ==
    /\ \A k \in 1..Len(lastCalls) :
          IsUpload(lastCalls[k])
          => /\ results[lastCalls[k].id].run_id # NoId
             /\ results[lastCalls[k].id].result_id # NoId
    /\ \A t \in Tests :
          (/\ lastOp.op = "flush_results"
           /\ results[t].run_id = NoId
           /\ results[t].attachments # <<>>
           /\ \E k \in 1..Len(lastCalls) :
                 lastCalls[k] = [op |-> "create_result", id |-> t, att |-> 0, out |-> "ok"])
          => /\ \A i \in 1..Len(results[t].attachments) :
                   results[t].attachments[i].uploads = 0
             /\ HasLog(lastLogs, "upload_attachment_failed")
             /\ mode = "lazy" => lastOp.exc = "RuntimeError"
             /\ mode = "batch" => HasLog(lastLogs, "upload_failed")

C16_Witness ==
    /\ mode = "lazy" /\ client
    /\ lastOp = [op |-> "flush_results", id |-> NoId, exc |-> "RuntimeError"]
    /\ results[1].run_id = NoId
    /\ results[1].result_id # NoId
    /\ Len(results[1].attachments) >= 1
    /\ results[1].attachments[1].remote_id = NoId
    /\ lastCalls = <<[op |-> "create_result", id |-> 1, att |-> 0, out |-> "ok"]>>

\* C17: an attachment's local file goes away in a handler call only when
\* its path is cache-owned (is_cached_path) and the call made an upload for
\* it that returned an artifact id or a success status; a file outside the
\* cache is never deleted, and nothing is deleted when the upload raises or
\* comes back unconfirmed.
C17_DeleteOnlyConfirmedCached ==
    [][\A t \in Tests : \A i \in 1..Len(results[t].attachments) :
          LET a == results[t].attachments[i]
              b == results'[t].attachments[i]
              ups == UploadsOf(lastCalls', t, i)
          IN /\ (a.exists /\ ~b.exists)
                => /\ a.cached
                   /\ \E k \in 1..Len(ups) : ups[k].out \in {"artifact", "status"}
             /\ ~a.cached => b.exists
             /\ (\A k \in 1..Len(ups) : ups[k].out \in {"unconfirmed", "error"})
                => b.exists = a.exists]_vars

C17_Witness ==
    /\ Len(results[1].attachments) >= 1
    /\ results[1].attachments[1].cached
    /\ ~results[1].attachments[1].exists
    /\ results[1].attachments[1].remote_id = NoId
    /\ Len(UploadsOf(lastCalls, 1, 1)) = 1
    /\ UploadsOf(lastCalls, 1, 1)[1].out = "status"

\* The other cases of C17: a file outside the cache kept after a confirmed
\* upload, and a cache-owned file kept after an unconfirmed one.
UploadedFileKept ==
    /\ Len(results[1].attachments) >= 1
    /\ results[1].attachments[1].exists
    /\ Len(UploadsOf(lastCalls, 1, 1)) = 1
    /\ \/ /\ ~results[1].attachments[1].cached
          /\ results[1].attachments[1].remote_id # NoId
       \/ /\ results[1].attachments[1].cached
          /\ UploadsOf(lastCalls, 1, 1)[1].out = "unconfirmed"

\* C18: in live mode, an on_test_finished that updates a result with
\* traceback text uploads the traceback after the update-result call.
C18_LiveFinishUploadsTraceback ==
    (/\ mode = "live"
     /\ lastOp.op = "on_test_finished"
     /\ results[lastOp.id].traceback
     /\ Len(lastCalls) >= 1
     /\ lastCalls[1].op = "update_result"
     /\ lastCalls[1].out = "ok")
    => \E k \in 2..Len(lastCalls) :
          lastCalls[k].op = "upload_traceback" /\ lastCalls[k].id = lastOp.id

\* C19: after any add_tag or add_tags call the test's tags hold no tag
\* twice, and the tags that were there stay where they were (first-insertion
\* order).
NoDuplicates(seq) == \A j, k \in 1..Len(seq) : seq[j] = seq[k] => j = k

C19_TagsUnique ==
    [][\A t \in Tests :
          /\ IsPrefix(results[t].tags, results'[t].tags)
          /\ NoDuplicates(results'[t].tags)]_vars

\* C20: after start_test(r) the current test is r and, when a session
\* exists, r is in the session's result map; after finish_test(r) the
\* current test is None and, when a session exists, r is in the result map.
C20_TestLifecycle ==
    /\ lastOp.op = "start_test"
       => /\ current_test = lastOp.id
          /\ session.active => lastOp.id \in Range(GetResults(Heap))
          /\ ~session.active => GetResults(Heap) = <<>>
    /\ lastOp.op = "finish_test"
       => /\ current_test = NoId
          /\ session.active => lastOp.id \in Range(GetResults(Heap))
          /\ ~session.active => GetResults(Heap) = <<>>
    /\ NoDuplicates(test_results)

\* finish_test(1) with both tests registered in the session's result map.
C20_Witness ==
    /\ session.active
    /\ lastOp = [op |-> "finish_test", id |-> 1, exc |-> "none"]
    /\ test_results = <<1, 2>>
    /\ current_test = NoId

\* C30: clamp_string returns the first `limit` characters of a longer
\* string, returns a string at or under the limit as it is, returns None
\* for None, and clamping its result again changes nothing.
C30_ClampString ==
    limits.fn = "clamp_string" =>
        LET value == limits.input
            limit == limits.limit
            out == limits.out.value
        IN /\ limits.out.exc = "none"
           /\ value = None => out = None
           /\ (value # None /\ Len(value.s) > limit) =>
                  /\ out.kind = "str"
                  /\ Len(out.s) = limit
                  /\ \A k \in 1..limit : out.s[k] = value.s[k]
           /\ (value # None /\ Len(value.s) <= limit) => out = value
           /\ clamp_string(out, limit) = out

C30_Witness ==
    /\ limits.fn = "clamp_string"
    /\ limits.input # None
    /\ Len(limits.input.s) > limits.limit
    /\ limits.limit > 0
    /\ limits.out.value.s # limits.input.s

\* C29: clamp_attributes returns no key longer than the key limit and no
\* string value longer than the value limit, and for every truncated key
\* that input keys clamp to, exactly one entry, carrying the (clamped)
\* value of the first such key in input order.
C29_ClampAttributes ==
    limits.fn = "clamp_attributes" =>
        LET attrs == limits.input
            out == limits.out.value
            Truncated(i) == Slice(attrs[i][1].s, ATTRIBUTE_KEY_LIMIT)
            First(i) == CHOOSE j \in 1..i :
                            /\ Truncated(j) = Truncated(i)
                            /\ \A k \in 1..(j - 1) : Truncated(k) # Truncated(i)
            Expected(v) == IF v.kind = "str"
                           THEN Str(Slice(v.s, ATTRIBUTE_VALUE_LIMIT))
                           ELSE v
        IN /\ limits.out.exc = "none"
           /\ \A k \in 1..Len(out) :
                 /\ Len(out[k][1]) <= ATTRIBUTE_KEY_LIMIT
                 /\ out[k][2].kind = "str" => Len(out[k][2].s) <= ATTRIBUTE_VALUE_LIMIT
           /\ \A i \in 1..Len(attrs) :
                 Truncated(i) # <<>> =>
                     /\ Cardinality({k \in 1..Len(out) : out[k][1] = Truncated(i)}) = 1
                     /\ \A k \in 1..Len(out) :
                           out[k][1] = Truncated(i) =>
                               out[k][2] = Expected(attrs[First(i)][2])

C29_Witness ==
    /\ limits.fn = "clamp_attributes"
    /\ Len(limits.input) = 2
    /\ Len(limits.input[1][1].s) > ATTRIBUTE_KEY_LIMIT
    /\ Len(limits.input[2][1].s) > ATTRIBUTE_KEY_LIMIT
    /\ limits.input[1][2].kind = "str"
    /\ Len(limits.input[1][2].s) > ATTRIBUTE_VALUE_LIMIT
    /\ limits.input[2][2] # limits.input[1][2]
    /\ Len(limits.out.value) = 1
    /\ Len(limits.out.value[1][2].s) = ATTRIBUTE_VALUE_LIMIT

\* C27: limit_list_strings returns the longest prefix of its input whose
\* JSON encoding fits the budget, followed by the item "..." when items
\* were dropped and the marker still fits; for ["a","bb","ccc"] and a budget
\* that fits only the first two items it returns ["a","bb","..."].
C27_ListMarker ==
    limits.fn = "limit_list_strings" =>
        LET values == limits.input
            out == limits.out.value
            Fits(l) == Len(JsonList(l)) <= limits.limit
            n == CHOOSE m \in 0..Len(values) :
                     /\ \A k \in 1..m : Fits(SubSeq(values, 1, k))
                     /\ m < Len(values) => ~Fits(SubSeq(values, 1, m + 1))
            kept == SubSeq(values, 1, n)
        IN /\ out = IF n < Len(values) /\ Fits(Append(kept, Str(Dots)))
                    THEN Append(kept, Str(Dots))
                    ELSE kept
           /\ (/\ values = <<Str(<<"a">>), Str(<<"b", "b">>), Str(<<"c", "c", "c">>)>>
               /\ n = 2)
              => out = <<Str(<<"a">>), Str(<<"b", "b">>), Str(Dots)>>

\* C28: limit_dict_strings returns a result and raises nothing, for every
\* string-keyed map, also one with several entries whose values json cannot
\* serialise.
C28_ClampsTotal ==
    limits.fn = "limit_dict_strings" => limits.out.exc = "none"

\* C25: start_run with a client and a project id, and no run id supplied,
\* makes exactly one create-run call; when the call raises or answers
\* without an id, start_run raises and no run id is returned; when it
\* answers with an id, start_run returns that id.
C25_StartRunOnce ==
    (lastOp.op = "start_run" /\ client /\ project_id /\ lastOp.id = NoId) =>
        /\ Len(lastCalls) = 1
        /\ lastCalls[1].op = "create_run"
        /\ lastCalls[1].out = "error" =>
              lastOp.exc = "RuntimeError" /\ run_id = NoId /\ pc = "aborted"
        /\ lastCalls[1].out = "ok" =>
              lastOp.exc = "none" /\ run_id # NoId /\ server.run = "STARTED"

C25_Witness ==
    /\ lastOp.op = "start_run"
    /\ client
    /\ project_id
    /\ lastOp.id = NoId
    /\ Len(lastCalls) = 1
    /\ lastCalls[1].out = "error"
    /\ lastOp.exc = "RuntimeError"

\* C21: with no current test, set_name, add_attributes, add_tag, add_tags,
\* set_description, set_severity and attach raise nothing and change
\* neither the session's result map nor any TestResult.
Mutators == {"set_name", "add_attributes", "add_tag", "add_tags",
             "set_description", "set_severity", "attach"}

C21_NoTestNoEffect ==
    [][(current_test = NoId /\ lastOp'.op \in Mutators) =>
          /\ lastOp'.exc = "none"
          /\ results' = results
          /\ test_results' = test_results
          /\ current_test' = NoId]_vars

C21_Witness ==
    /\ lastOp.op = "set_severity"
    /\ lastOp.id = NoId
    /\ test_results # <<>>
    /\ results[1].phase = "finished"

C24_CopyFailureFallsBack ==
    [][(lastOp'.op = "attach" /\ current_test # NoId
        /\ lastAttach'.kind = "path" /\ ~lastAttach'.copyOk) =>
          LET t == current_test
              after == results'[t].attachments
          IN /\ lastOp'.exc = "none"
             /\ Len(after) = Len(results[t].attachments) + 1
             /\ lastAttach'.stored.path = "source"
             /\ lastAttach'.stored.original_path = "source"
             /\ ~after[Len(after)].cached]_vars

C24_Witness ==
    /\ lastOp.op = "attach"
    /\ lastOp.id # NoId
    /\ lastAttach.kind = "path"
    /\ ~lastAttach.copyOk
    /\ lastOp.exc = "none"
    /\ Len(results[lastOp.id].attachments) = 1
    /\ ~results[lastOp.id].attachments[1].cached

\* C22: the current-test and current-session pointers are per thread: what
\* a getter returns to a thread is what that same thread last set (or had
\* created for it), never a context another thread set, and a clear by
\* another thread does not remove it, in every interleaving of two threads.
C22_ThreadIsolation ==
    \A th \in Threads :
        /\ returned[th].what = "test" =>
              /\ returned[th].value = lastSet[th].test_ctx
              /\ returned[th].value \in TestContextsOf(th) \cup {th * 10}
        /\ returned[th].what = "session" =>
              /\ returned[th].value = lastSet[th].session_ctx
              /\ returned[th].value \in SessionContextsOf(th) \cup {NoId}

C22_Witness ==
    /\ returned[1] = [what |-> "test", value |-> 11]
    /\ returned[2] = [what |-> "test", value |-> 21]
    /\ Local[1].session_ctx = NoId
    /\ Local[2].session_ctx = 21
    /\ lastSet[2].session_ctx = 21

\* C26: when the coordinating process merges, after all workers have exited,
\* worker files that hold at least one item, results.json is the
\* concatenation of their arrays: every item of every worker file occurs in
\* it exactly once, and it holds nothing else.
C26_MergeKeepsEveryItem ==
    [][(/\ masterPc = "running"
        /\ masterPc' = "finished"
        /\ \E w \in Workers : workerFiles[w].exists /\ workerFiles[w].items # <<>>) =>
          LET merged == resultsFile'.items
              Occurrences(item) ==
                  Cardinality({k \in 1..Len(merged) : merged[k] = item})
              Total[w \in 0..MaxWorkers] ==
                  IF w = 0 THEN 0
                  ELSE Total[w - 1] + (IF workerFiles[w].exists
                                       THEN Len(workerFiles[w].items) ELSE 0)
          IN /\ resultsFile'.exists
             /\ \A w \in Workers :
                   workerFiles[w].exists =>
                       /\ \A k \in 1..Len(workerFiles[w].items) :
                             Occurrences(workerFiles[w].items[k]) = 1
                       /\ \E at \in 0..Len(merged) :
                             SubSeq(merged, at + 1, at + Len(workerFiles[w].items))
                                 = workerFiles[w].items
             /\ Len(merged) = Total[MaxWorkers]]_vars

C26_Witness ==
    /\ masterPc = "finished"
    /\ resultsFile.exists
    /\ \A w \in Workers : ~workerFiles[w].exists
    /\ \E i, j \in 1..Len(resultsFile.items) :
          /\ resultsFile.items[i][1] = 1
          /\ resultsFile.items[j][1] = 2
    /\ Len(resultsFile.items) = Len(workers[1].results) + Len(workers[2].results)

\* C40: for every input list and every budget of at least 2, the JSON
\* encoding of the list limit_list_strings returns, marker included, is not
\* longer than the budget.
C40_ListWithinBudget ==
    (limits.fn = "limit_list_strings" /\ limits.limit >= 2) =>
        Len(JsonList(limits.out.value)) <= limits.limit

\* C35: in live mode with a client (and a run id), after on_test_finished returns or raises
\* the result's reporting_status is FINISHED or FAILED, also when the create
\* call failed or was skipped at test start and succeeds at test finish.
C35_LiveFinishTerminal ==
    (mode = "live" /\ client /\ run_id # NoId /\ lastOp.op = "on_test_finished")
    => results[lastOp.id].reporting_status \in {"FINISHED", "FAILED"}

C37_StatusImpliesId ==
    \A t \in Tests :
        /\ results[t].reporting_status \in {"INITIALIZED", "FINISHED"}
              => results[t].result_id # NoId
        /\ results[t].result_id = NoId
              => results[t].reporting_status \in {"UNSENT", "FAILED"}

C37_Witness ==
    /\ results[1].reporting_status = "FAILED"
    /\ results[1].result_id = NoId
    /\ results[2].reporting_status = "INITIALIZED"
    /\ results[2].result_id # NoId
    /\ totals.create[1] >= 1

\* C38: with no client and a session active, on_test_finished raises
\* nothing in any delivery mode (stated with PROOFY_BATCH_SIZE unset).
C38_NoClientFinishNeverRaises ==
    (~client /\ session.active /\ ~envBatchSize.set
     /\ lastOp.op = "on_test_finished")
    => lastOp.exc = "none"

\* C39: when the coordinating process merges, a worker file that could not
\* be read or parsed, whose contents are therefore not in results.json, is
\* still present after the merge.
C39_UnreadFileKept ==
    [][(masterPc = "running" /\ masterPc' = "finished") =>
          \A w \in Workers :
              (workerFiles[w].exists /\ ~workerFiles[w].readable)
                  => workerFiles'[w].exists]_vars

\* C31: update_result raises an error and sends no request for an update
\* that sets status without ended_at, for an update with no field at all,
\* and for an update with a negative duration_ms; an update with status and
\* ended_at together (and no negative duration) is sent in one request that
\* carries both.
C31_UpdateValidation ==
    LET a == lastUpdate.args
        rejected == lastUpdate.exc = "ValueError" /\ lastUpdate.requests = <<>>
    IN lastUpdate.called =>
          /\ (a.status.given /\ ~a.ended_at.given) => rejected
          /\ (~a.status.given /\ ~a.ended_at.given /\ ~a.duration_ms.given
              /\ ~a.message.given /\ a.attributes.v = <<>>) => rejected
          /\ (a.duration_ms.given /\ a.duration_ms.v < 0) => rejected
          /\ (a.status.given /\ a.ended_at.given
              /\ ~(a.duration_ms.given /\ a.duration_ms.v < 0)) =>
                 /\ Len(lastUpdate.requests) = 1
                 /\ HasKey(lastUpdate.requests[1].body, "status")
                 /\ HasKey(lastUpdate.requests[1].body, "ended_at")

C31_Witness ==
    /\ lastUpdate.called
    /\ lastUpdate.args.status = Given(1)
    /\ lastUpdate.args.ended_at = Given(<<"t">>)
    /\ ~lastUpdate.args.duration_ms.given
    /\ lastUpdate.exc = "none"
    /\ lastUpdate.requests = <<[method |-> "PATCH",
                                body |-> <<<<"status", 1>>,
                                           <<"ended_at", <<"t">>>>>>]>>

\* C34: inside a session, a result finished through one ResultsHandler
\* instance is among that instance's results and is not among the results
\* of any other ResultsHandler instance.
C34_ResultsIsolatedPerHandler ==
    session.active =>
        \A t \in Tests :
            finishedBy[t] # NoId =>
                /\ t \in ResultsOf(finishedBy[t])
                /\ \A other \in Handlers \ {finishedBy[t]} : t \notin ResultsOf(other)

\* C32: across the coordinating process and the workers the remote run is
\* created at most once and only by the coordinating process (no worker
\* session start makes a create-run call), and every worker whose session
\* has started with a plugin uses the run id and the session id that the
\* coordinating process put in its input.
C32_RunCreatedOnceByMaster ==
    /\ Len(runCalls.create) <= 1
    /\ \A k \in 1..Len(runCalls.create) : runCalls.create[k] = 0
    /\ \A w \in Workers :
          (plugins[w].pc \in {"started", "finished"} /\ plugins[w].instance) =>
              /\ plugins[w].run_id = workerinput[w].run_id
              /\ plugins[w].session_id = workerinput[w].session_id
              /\ plugins[w].session_id = plugins[0].session_id
              /\ plugins[w].run_id \in {NoId, plugins[0].run_id}

C32_Witness ==
    /\ mode = "live"
    /\ runCalls.create = <<0>>
    /\ plugins[0].run_id = 1
    /\ \A w \in 1..2 :
          /\ plugins[w].pc = "started"
          /\ plugins[w].instance
          /\ plugins[w].run_id = 1
          /\ plugins[w].session_id = Uuid(0)

\* C33: a worker's session finish never calls _finalize_run and never makes
\* the finalizing update call; the coordinating process's session finish
\* calls _finalize_run exactly once, which makes the update call exactly
\* once when there are a client and a run id, and not before that finish.
C33_FinalizedByMasterOnce ==
    /\ \A w \in Workers : runCalls.finalize_invoked[w] = 0
    /\ \A k \in 1..Len(runCalls.finalize) : runCalls.finalize[k] = 0
    /\ IF plugins[0].pc = "finished"
       THEN /\ runCalls.finalize_invoked[0] = 1
            /\ Len(runCalls.finalize) =
                  (IF client /\ plugins[0].run_id # NoId THEN 1 ELSE 0)
       ELSE /\ runCalls.finalize_invoked[0] = 0
            /\ runCalls.finalize = <<>>

C33_Witness ==
    /\ plugins[0].pc = "finished"
    /\ \A w \in 1..2 : plugins[w].pc = "finished" /\ plugins[w].instance
                       /\ plugins[w].run_id = 1
    /\ runCalls.finalize = <<0>>
    /\ runCalls.finalize_invoked[0] = 1

====
